---- MODULE Spec2Model ----
(***************************************************************************)
(* Model of multi_claude.py: the file-based Coordination Store             *)
(* (CoordinationManager), the agent launcher (AgentLauncher) and the       *)
(* orchestrator run with its two step-scheduling policies                  *)
(* (MultiClaudeOrchestrator).                                              *)
(*                                                                         *)
(* The specifications share the variables below:                           *)
(*   StoreSpec  claim_work / release_work / _cleanup, each call running    *)
(*              to completion;                                             *)
(*   RegistrySpec  the same with register_agent and log_completed_work,    *)
(*              and the registry file damaged from outside;                *)
(*   RaceSpec   claim_work / release_work calls of several participants    *)
(*              interleaved file operation by file operation;              *)
(*   Spec       one run of MultiClaudeOrchestrator, construction to exit.  *)
(***************************************************************************)
EXTENDS Integers, Sequences, FiniteSets, TLC

VARIABLES
    now,            \* wall clock in seconds (datetime.now())
    claims,         \* work_claims_dir: lock-file key (uid) -> lock file
    ret,            \* StoreSpec: what the last claim_work call returned
    held,           \* StoreHistSpec: per uid and file, when the uid was last
                    \* granted a claim on the file it has not released since
    cpc,            \* RaceSpec: each participant's position in its call
    cargs,          \* RaceSpec: the files argument of the call in progress
    clist,          \* RaceSpec: lock files listed by glob and not yet visited
    cret,           \* RaceSpec: how the participant's last call ended
    cmeta,          \* RaceSpec: calls made so far, and whether two overlapped
    cghost,         \* RaceHistSpec: history of each participant's call
    RUNNING,        \* the global shutdown flag
    pc,             \* Spec: position of the orchestrator in run()
    cfg,            \* Spec: the parsed command line (args) and prompt size
    idx,            \* Spec: index of the for-loop being executed
    agents,         \* AgentLauncher.agents: agent id -> Agent
    registry,       \* active_agents.json: uid -> entry
    regstate,       \* active_agents.json: "valid" (holds registry as JSON),
                    \* "missing" (no file) or "corrupt" (not JSON)
    worklog,        \* completed_work.log: whether it exists, and its lines
    regret,         \* RegistrySpec: how the last register_agent call ended
    op,             \* RegistrySpec: the operation performed last, and for whom
    captured,       \* check_agent_ready: the pane text it captured last
    is_ready,       \* check_agent_ready: what it returned last
    swept,          \* SweepHistSpec: the assignments made in the current sweep
    step_index,     \* _orchestrate_steps: the step cursor
    agents_working, \* _orchestrate_steps: ids marked working
    todo,           \* _orchestrate_steps: list(agents_working) being polled
    sent,           \* everything delivered to panes by send_to_pane, in order
    trace           \* history of the run: stages reached, reports printed

storeVars == <<now, claims, ret, held>>
raceVars == <<cpc, cargs, clist, cret, cmeta, cghost>>
runVars == <<RUNNING, pc, cfg, idx, agents, registry, step_index,
             agents_working, todo, sent, trace>>
regFiles == <<registry, regstate, worklog>>
vars == <<now, claims, ret, held, cpc, cargs, clist, cret, cmeta, cghost,
          RUNNING, pc, cfg, idx, agents, registry, regstate, worklog, regret, op,
          captured, is_ready, swept, step_index, agents_working, todo, sent,
          trace>>

---------------------------------------------------------------------------
(* Bounds of the model. *)

NumUids == 2        \* participants (uids) using the store
NumFiles == 2       \* file paths that can be claimed
MaxSkew == 1        \* the clock reaches 0 and StaleSeconds + 0..MaxSkew
MaxAgents == 2      \* args.agents ranges over 1..MaxAgents
MaxSteps == 5       \* len(prompt.steps) ranges over 0..MaxSteps
MaxBundle == 2      \* args.bundle_steps ranges over None (0) and 1..MaxBundle
MaxCalls == 2       \* RaceSpec: store calls made in one behaviour
MaxRegistered == 2  \* RegistrySpec: entries the registry grows to
MaxLog == 2         \* RegistrySpec: lines the completed-work log grows to
MaxFragments == 2    \* LauncherSpec

(* Program constants. *)

StaleSeconds == 7200    \* claim_work: total_seconds() > 7200
CdSettleSeconds == 1    \* launch_agent: time.sleep(1) after cd
InitSettleSeconds == 10 \* launch_agent: time.sleep(10) after starting claude

Uids == 1..NumUids
Files == 1..NumFiles
FileSets == SUBSET Files
TimePoints == {0} \cup {StaleSeconds + s : s \in 0..MaxSkew}

---------------------------------------------------------------------------
(* Coordination Store: CoordinationManager.                                *)

\* A lock file work_claims/<uid>.lock. state is "absent" (no file), "empty"
\* (the file exists and holds no JSON yet: it was opened for writing and the
\* data is not flushed) or "written" (lock_data: agent, files, timestamp; the
\* description text is not modelled, no operation reads it).
NoClaim == [state |-> "absent", agent |-> 0, files |-> {}, timestamp |-> 0]
EmptyClaim == [state |-> "empty", agent |-> 0, files |-> {}, timestamp |-> 0]
LockData(uid, files, t) ==
    [state |-> "written", agent |-> uid, files |-> files, timestamp |-> t]

\* glob("*.lock"): the keys of the lock files that exist.
LockFiles(store) == {k \in DOMAIN store : store[k].state # "absent"}

\* Variant: all(...) in place of any(...), a record blocks only a request
\* all of whose files it holds.
OverlapsAll(lock_data, files) == files \subseteq lock_data.files

\* any(f in lock_data["files"] for f in files)
Overlaps(lock_data, files) == lock_data.files \cap files # {}

\* Variant: a record is stale from the age of 7200 s on.
IsStaleAtThreshold(lock_data, t) == t - lock_data.timestamp >= StaleSeconds

\* (datetime.now() - lock_time).total_seconds() > 7200
IsStale(lock_data, t) == t - lock_data.timestamp > StaleSeconds

\* Variant: the "else: return False" branch is missing, a fresh record with a
\* common file is passed over.
ScanVerdictNoRefusal(lock_data, files, t) ==
    IF Overlaps(lock_data, files) /\ IsStale(lock_data, t) THEN "stale" ELSE "free"

\* Variant: the age is tested before the files, an old record is unlinked
\* whatever files it holds.
ScanVerdictStaleAny(lock_data, files, t) ==
    IF IsStale(lock_data, t) THEN "stale"
    ELSE IF Overlaps(lock_data, files) THEN "locked" ELSE "free"

\* The body of claim_work's loop for one lock file: "free" (no common file),
\* "stale" (unlink it and go on) or "locked" (return False).
ScanVerdict(lock_data, files, t) ==
    IF Overlaps(lock_data, files)
    THEN IF IsStale(lock_data, t) THEN "stale" ELSE "locked"
    ELSE "free"

\* The orders in which glob can yield the lock files S.
Orders(S) ==
    {o \in [1..Cardinality(S) -> S] : \A i, j \in DOMAIN o : i # j => o[i] # o[j]}

\* claim_work's for-loop over the lock files in the order glob yields them.
RECURSIVE Scan(_, _, _, _)
Scan(store, order, files, t) ==
    IF order = <<>>
    THEN [store |-> store, ok |-> TRUE]
    ELSE LET k == Head(order)
             v == ScanVerdict(store[k], files, t)
         IN  IF v = "locked"
             THEN [store |-> store, ok |-> FALSE]
             ELSE Scan(IF v = "stale" THEN [store EXCEPT ![k] = NoClaim] ELSE store,
                       Tail(order), files, t)

NoGrant == [f \in Files |-> -1]

\* completed_work.log: no file, or its lines (the uid each was logged under).
NoLog == [exists |-> FALSE, lines |-> <<>>]

\* Variant: the registry file is left as it is.
StoreCleanupKeepsRegistry ==
    /\ claims' = [k \in Uids |-> NoClaim]
    /\ worklog' = NoLog
    /\ UNCHANGED <<now, ret, registry, regstate, regret>>

\* _cleanup: every lock file is unlinked, "{}" is written to the registry
\* file, the completed-work log is unlinked if it exists.
StoreCleanup ==
    /\ claims' = [k \in Uids |-> NoClaim]
    /\ registry' = {}
    /\ regstate' = "valid"
    /\ worklog' = NoLog
    /\ UNCHANGED <<now, ret, regret>>

\* Variant: the files are added to those of the record the uid has.
ClaimWorkKeepsFiles(uid, files) ==
    \E order \in Orders(LockFiles(claims)) :
        LET r == Scan(claims, order, files, now)
        IN  /\ claims' = IF r.ok
                         THEN [r.store EXCEPT
                                 ![uid] = LockData(uid, files \cup r.store[uid].files, now)]
                         ELSE r.store
            /\ ret' = r.ok
            /\ UNCHANGED now

\* Variant: the loop passes over the caller's own lock file.
ClaimWorkSkipsOwn(uid, files) ==
    \E order \in Orders(LockFiles(claims) \ {uid}) :
        LET r == Scan(claims, order, files, now)
        IN  /\ claims' = IF r.ok
                         THEN [r.store EXCEPT ![uid] = LockData(uid, files, now)]
                         ELSE r.store
            /\ ret' = r.ok
            /\ UNCHANGED now

\* claim_work(agent_uid, files, description), run to completion.
ClaimWork(uid, files) ==
    \E order \in Orders(LockFiles(claims)) :
        LET r == Scan(claims, order, files, now)
        IN  /\ claims' = IF r.ok
                         THEN [r.store EXCEPT ![uid] = LockData(uid, files, now)]
                         ELSE r.store
            /\ ret' = r.ok
            /\ UNCHANGED now

\* Variant: every lock file is unlinked, as _cleanup does.
ReleasedAll(store, uid) == [k \in DOMAIN store |-> NoClaim]

\* release_work: "if lock_file.exists(): lock_file.unlink()" on <uid>.lock
Released(store, uid) ==
    IF store[uid].state # "absent" THEN [store EXCEPT ![uid] = NoClaim] ELSE store

\* release_work(agent_uid)
ReleaseWork(uid) ==
    /\ claims' = Released(claims, uid)
    /\ UNCHANGED <<now, ret>>

\* Time passes between two calls.
Tick ==
    /\ \E t \in TimePoints : t > now /\ now' = t
    /\ UNCHANGED <<claims, ret>>

\* An operation of the store or the launcher and, for release_work, the uid,
\* for register_agent and check_agent_ready, the agent id it was called with
\* (0 for the others).
Op(name, who) == [name |-> name, who |-> who]

\* register_agent has not been called.
NoRegistration == [how |-> "none", uid |-> [timestamp |-> -1, suffix |-> -1],
                   found |-> "valid"]

StoreInit ==
    /\ now = 0
    /\ claims = [k \in Uids |-> NoClaim]
    /\ ret = FALSE
    /\ held = [u \in Uids |-> NoGrant]
    /\ regstate = "valid"
    /\ worklog = NoLog
    /\ regret = NoRegistration
    /\ op = Op("none", 0)
    /\ captured = {}
    /\ is_ready = FALSE
    /\ swept = <<>>

storeFrame == <<swept, captured, is_ready, held, cpc, cargs, clist, cret, cmeta, cghost, RUNNING, pc, cfg, idx,
                agents, regret, op, step_index, agents_working, todo, sent, trace>>

StoreNext ==
    \/ StoreCleanup /\ UNCHANGED storeFrame
    \/ (\E u \in Uids, F \in FileSets : ClaimWork(u, F))
         /\ UNCHANGED regFiles /\ UNCHANGED storeFrame
    \/ (\E u \in Uids : ReleaseWork(u)) /\ UNCHANGED regFiles /\ UNCHANGED storeFrame
    \/ Tick /\ UNCHANGED regFiles /\ UNCHANGED storeFrame

\* The same operations, with the history of the grants kept in held: a
\* successful claim_work grants its files to the uid as of now, release_work
\* and _cleanup end the uid's grants.
histFrame == <<swept, captured, is_ready, cpc, cargs, clist, cret, cmeta, cghost, RUNNING, pc, cfg, idx,
               agents, regret, op, step_index, agents_working, todo, sent, trace>>

Granted(uid, files) ==
    [held EXCEPT ![uid] = [f \in Files |-> IF f \in files THEN now ELSE @[f]]]

StoreHistNext ==
    \/ StoreCleanup /\ held' = [u \in Uids |-> NoGrant] /\ UNCHANGED histFrame
    \/ (\E u \in Uids, F \in FileSets :
           /\ ClaimWork(u, F)
           /\ held' = IF ret' THEN Granted(u, F) ELSE held)
         /\ UNCHANGED regFiles /\ UNCHANGED histFrame
    \/ (\E u \in Uids : ReleaseWork(u) /\ held' = [held EXCEPT ![u] = NoGrant])
         /\ UNCHANGED regFiles /\ UNCHANGED histFrame
    \/ Tick /\ UNCHANGED held /\ UNCHANGED regFiles /\ UNCHANGED histFrame

\* The same operations, with the call just made kept in op, the files it was
\* made with in cargs and, for claim_work, the lock files glob listed in
\* clist.
callFrame == <<swept, captured, is_ready, held, cpc, cret, cmeta, cghost, RUNNING,
               pc, cfg, idx, agents, regret, step_index, agents_working, todo,
               sent, trace>>

Called(name, uid, files) ==
    /\ op' = Op(name, uid)
    /\ cargs' = [k \in Uids |->
                    IF k = uid
                    THEN [files |-> files, target |-> 0, timestamp |-> now]
                    ELSE [files |-> {}, target |-> 0, timestamp |-> 0]]
    /\ clist' = [k \in Uids |->
                    IF k = uid /\ name = "claim" THEN LockFiles(claims) ELSE {}]

\* The file lists claim_work is called with: one file, or all of them.
Requests == {{f} : f \in Files} \cup {Files}

CallNext ==
    \/ StoreCleanup /\ Called("cleanup", 0, {}) /\ UNCHANGED callFrame
    \/ (\E u \in Uids, F \in Requests : ClaimWork(u, F) /\ Called("claim", u, F))
         /\ UNCHANGED regFiles /\ UNCHANGED callFrame
    \/ (\E u \in Uids : ReleaseWork(u) /\ Called("release", u, {}))
         /\ UNCHANGED regFiles /\ UNCHANGED callFrame
    \/ Tick /\ Called("tick", 0, {}) /\ UNCHANGED regFiles /\ UNCHANGED callFrame

---------------------------------------------------------------------------
(* claim_work and release_work of concurrent participants, one file        *)
(* operation per step. Every participant (one per uid) runs its calls one  *)
(* after the other; calls of different participants interleave.            *)

NoArgs == [files |-> {}, target |-> 0, timestamp |-> 0]

InCall(u) == cpc[u] # "idle"

\* A call ends: the participant is idle again and how is what the caller sees
\* ("true", "false", "done" for release_work's return, "raise" for an
\* exception leaving the call).
Return(u, how) ==
    /\ cpc' = [cpc EXCEPT ![u] = "idle"]
    /\ cret' = [cret EXCEPT ![u] = how]
    /\ cargs' = [cargs EXCEPT ![u] = NoArgs]
    /\ clist' = [clist EXCEPT ![u] = {}]

\* A call is entered: it is counted, and it is noted whether another
\* participant is in the middle of a call.
Entered(u) ==
    /\ cpc[u] = "idle"
    /\ cmeta.calls < MaxCalls
    /\ cmeta' = [calls |-> cmeta.calls + 1,
                 concurrent |-> cmeta.concurrent \/ \E w \in Uids \ {u} : InCall(w)]

\* claim_work is entered; glob lists the lock files that exist.
CallClaim(u, files) ==
    /\ Entered(u)
    /\ cpc' = [cpc EXCEPT ![u] = "scan"]
    /\ cargs' = [cargs EXCEPT ![u] = [files |-> files, target |-> 0, timestamp |-> 0]]
    /\ clist' = [clist EXCEPT ![u] = LockFiles(claims)]
    /\ cret' = [cret EXCEPT ![u] = "none"]
    /\ UNCHANGED <<now, claims>>

\* lock_data = json.loads(lock_file.read_text()) and the test on it, for the
\* next lock file k of the listing.
ScanRead(u, k) ==
    /\ cpc[u] = "scan"
    /\ k \in clist[u]
    /\ IF claims[k].state # "written"
       THEN \* FileNotFoundError (unlinked since the listing) or JSONDecodeError
            \* (opened for writing, nothing flushed yet)
            Return(u, "raise")
       ELSE LET v == ScanVerdict(claims[k], cargs[u].files, now)
            IN  CASE v = "locked" ->
                       Return(u, "false")
                  [] v = "stale" ->
                       /\ cpc' = [cpc EXCEPT ![u] = "unlink"]
                       /\ cargs' = [cargs EXCEPT ![u].target = k]
                       /\ clist' = [clist EXCEPT ![u] = @ \ {k}]
                       /\ UNCHANGED cret
                  [] OTHER ->
                       /\ clist' = [clist EXCEPT ![u] = @ \ {k}]
                       /\ UNCHANGED <<cpc, cargs, cret>>
    /\ UNCHANGED <<now, claims, cmeta>>

\* lock_file.unlink() of the lock file found stale.
ScanUnlink(u) ==
    /\ cpc[u] = "unlink"
    /\ IF claims[cargs[u].target].state = "absent"
       THEN \* FileNotFoundError: another participant unlinked it first
            /\ Return(u, "raise")
            /\ UNCHANGED claims
       ELSE /\ claims' = [claims EXCEPT ![cargs[u].target] = NoClaim]
            /\ cpc' = [cpc EXCEPT ![u] = "scan"]
            /\ cargs' = [cargs EXCEPT ![u].target = 0]
            /\ UNCHANGED <<cret, clist>>
    /\ UNCHANGED <<now, cmeta>>

\* The loop is over: lock_data is built with the current time and write_text
\* opens <uid>.lock for writing, which creates or truncates it.
WriteOpen(u) ==
    /\ cpc[u] = "scan"
    /\ clist[u] = {}
    /\ cpc' = [cpc EXCEPT ![u] = "fill"]
    /\ cargs' = [cargs EXCEPT ![u].timestamp = now]
    /\ claims' = [claims EXCEPT ![u] = EmptyClaim]
    /\ UNCHANGED <<now, clist, cret, cmeta>>

\* write_text flushes the JSON and closes; claim_work returns True. If the
\* file was unlinked since it was opened, the data goes to the unlinked file.
WriteFlush(u) ==
    /\ cpc[u] = "fill"
    /\ claims' = IF claims[u].state = "absent"
                 THEN claims
                 ELSE [claims EXCEPT
                         ![u] = LockData(u, cargs[u].files, cargs[u].timestamp)]
    /\ Return(u, "true")
    /\ UNCHANGED <<now, cmeta>>

\* release_work is entered: lock_file.exists()
CallRelease(u) ==
    /\ Entered(u)
    /\ IF claims[u].state = "absent"
       THEN /\ cret' = [cret EXCEPT ![u] = "done"]
            /\ UNCHANGED cpc
       ELSE /\ cpc' = [cpc EXCEPT ![u] = "rel_unlink"]
            /\ cret' = [cret EXCEPT ![u] = "none"]
    /\ UNCHANGED <<now, claims, cargs, clist>>

\* release_work: lock_file.unlink()
ReleaseUnlink(u) ==
    /\ cpc[u] = "rel_unlink"
    /\ IF claims[u].state = "absent"
       THEN /\ Return(u, "raise")
            /\ UNCHANGED claims
       ELSE /\ claims' = [claims EXCEPT ![u] = NoClaim]
            /\ Return(u, "done")
    /\ UNCHANGED <<now, cmeta>>

\* Time passes, also in the middle of calls: the records written so far
\* become stale.
RaceTick ==
    /\ now < StaleSeconds + 1
    /\ now' = StaleSeconds + 1
    /\ UNCHANGED <<claims, cpc, cargs, clist, cret, cmeta>>

NoCall == [op |-> "none", clean |-> FALSE, env |-> FALSE, lost |-> FALSE]

RaceIdle ==
    /\ cpc = [u \in Uids |-> "idle"]
    /\ cargs = [u \in Uids |-> NoArgs]
    /\ clist = [u \in Uids |-> {}]
    /\ cret = [u \in Uids |-> "none"]
    /\ cmeta = [calls |-> 0, concurrent |-> FALSE]
    /\ cghost = [u \in Uids |-> NoCall]

raceFrame == <<swept, captured, is_ready, ret, held, cghost, RUNNING, pc, cfg, idx, agents, registry,
               regstate, worklog, regret, op, step_index, agents_working, todo,
               sent, trace>>

RaceNext ==
    \/ (\E u \in Uids, F \in FileSets : CallClaim(u, F)) /\ UNCHANGED raceFrame
    \/ (\E u \in Uids, k \in Uids : ScanRead(u, k)) /\ UNCHANGED raceFrame
    \/ (\E u \in Uids : ScanUnlink(u)) /\ UNCHANGED raceFrame
    \/ (\E u \in Uids : WriteOpen(u)) /\ UNCHANGED raceFrame
    \/ (\E u \in Uids : WriteFlush(u)) /\ UNCHANGED raceFrame
    \/ (\E u \in Uids : CallRelease(u)) /\ UNCHANGED raceFrame
    \/ (\E u \in Uids : ReleaseUnlink(u)) /\ UNCHANGED raceFrame
    \/ RaceTick /\ UNCHANGED raceFrame

\* The same steps, with the history of each participant's call in progress
\* kept in cghost:
\*   clean  when the call was entered, no written record that was not stale
\*          had a file in common with the call's files;
\*   env    all that ran concurrently with the call were claim_work calls
\*          on files disjoint from its own, themselves entered clean;
\*   lost   the call returned True and its lock file did not exist then.
raceHistFrame == <<swept, captured, is_ready, ret, held, RUNNING, pc, cfg, idx, agents, registry,
                   regstate, worklog, regret, op, step_index, agents_working,
                   todo, sent, trace>>

\* No written record that is not stale has a file in common with files.
CleanFor(files) ==
    \A k \in Uids :
        claims[k].state = "written" =>
            ~(Overlaps(claims[k], files) /\ ~IsStale(claims[k], now))

ClaimEntered(u, files) ==
    [v \in Uids |->
        IF v = u
        THEN [op |-> "claim",
              clean |-> CleanFor(files),
              env |-> \A w \in Uids \ {u} :
                         InCall(w) => /\ cghost[w].op = "claim"
                                      /\ cghost[w].clean
                                      /\ cargs[w].files \cap files = {},
              lost |-> FALSE]
        ELSE IF InCall(v)
             THEN [cghost[v] EXCEPT
                     !.env = @ /\ CleanFor(files) /\ cargs[v].files \cap files = {}]
             ELSE cghost[v]]

ReleaseEntered(u) ==
    [v \in Uids |->
        IF v = u
        THEN [op |-> "release", clean |-> FALSE, env |-> FALSE, lost |-> FALSE]
        ELSE IF InCall(v) THEN [cghost[v] EXCEPT !.env = FALSE] ELSE cghost[v]]

RaceHistNext ==
    \/ (\E u \in Uids, F \in FileSets :
           CallClaim(u, F) /\ cghost' = ClaimEntered(u, F))
         /\ UNCHANGED raceHistFrame
    \/ (\E u \in Uids, k \in Uids : ScanRead(u, k))
         /\ UNCHANGED cghost /\ UNCHANGED raceHistFrame
    \/ (\E u \in Uids : ScanUnlink(u)) /\ UNCHANGED cghost /\ UNCHANGED raceHistFrame
    \/ (\E u \in Uids : WriteOpen(u)) /\ UNCHANGED cghost /\ UNCHANGED raceHistFrame
    \/ (\E u \in Uids :
           /\ WriteFlush(u)
           /\ cghost' = [cghost EXCEPT ![u].lost = (claims[u].state = "absent")])
         /\ UNCHANGED raceHistFrame
    \/ (\E u \in Uids : CallRelease(u) /\ cghost' = ReleaseEntered(u))
         /\ UNCHANGED raceHistFrame
    \/ (\E u \in Uids : ReleaseUnlink(u))
         /\ UNCHANGED cghost /\ UNCHANGED raceHistFrame
    \/ RaceTick /\ UNCHANGED cghost /\ UNCHANGED raceHistFrame

---------------------------------------------------------------------------
(* The orchestrator: MultiClaudeOrchestrator.run and what it calls.        *)

HashRange == 65536      \* register_agent: hexdigest()[:4], four hex digits

AgentIds == 0..(cfg.agents - 1)

\* prompt.steps as _parse_prompt builds it: BuildStep(i + 1, step). The
\* content of step k is the text k; every second step carries a description.
StepList(n) ==
    [k \in 1..n |-> [number |-> k, content |-> k,
                     description |-> IF k % 2 = 0 THEN k ELSE 0]]

PromptSteps == StepList(cfg.nsteps)

\* capture_pane: the text of a pane, as the set of the literal fragments it
\* contains; "x in output" is membership.
PaneTexts ==
    { {}, {"? for shortcuts"}, {"Ready"}, {"cwd:", "ready"}, {"esc to interrupt"},
      {"Welcome to Claude Code", "/help for help"}, {"Press Esc twice", "READY"} }

\* Variant: "? for shortcuts" is not in the list.
ReadyIndicatorsFour ==
    {"Welcome to Claude Code", "/help for help", "cwd:", "Press Esc twice"}

\* check_agent_ready: ready_indicators
ReadyIndicators ==
    {"Welcome to Claude Code", "/help for help", "? for shortcuts", "cwd:",
     "Press Esc twice"}

\* check_agent_ready: any(indicator in output for indicator in ready_indicators)
IsReady(output) == \E indicator \in ReadyIndicators : indicator \in output

\* str.lower() of one fragment
LowerFragment(f) ==
    CASE f \in {"Ready", "READY"} -> "ready"
      [] f = "Welcome to Claude Code" -> "welcome to claude code"
      [] f = "Press Esc twice" -> "press esc twice"
      [] OTHER -> f

\* output.lower()
Lower(output) == {LowerFragment(f) : f \in output}

\* Variant: the marker is looked for in the text as it is.
ShowsCompletionExact(output) == "ready" \in output

\* _orchestrate_steps: "ready" in output.lower()
ShowsCompletion(output) == "ready" \in Lower(output)

\* A reading of the clock: the second (datetime.now() and time.time() agree
\* on it) and the milliseconds time.time() shows after it.
Reading(sec, ms) == [sec |-> sec, ms |-> ms]

\* The milliseconds at which register_agent is called within a second.
Millis == {30, 70}

\* register_agent: hashlib.md5(f"{agent_id}{time.time()}").hexdigest()[:4],
\* as the number the four hex digits denote. The values are those of md5 for
\* the readings the model uses, the clock showing 1700000000.0 at now = 0:
\* md5("01700000000.03") and md5("11700000000.07") both start with 1c66.
Hash4(agent_id, reading) ==
    CASE <<agent_id, reading.sec, reading.ms>> = <<0, 0, 0>> -> 49648
      [] <<agent_id, reading.sec, reading.ms>> = <<0, 0, 30>> -> 7270
      [] <<agent_id, reading.sec, reading.ms>> = <<0, 0, 70>> -> 32476
      [] <<agent_id, reading.sec, reading.ms>> = <<1, 0, 0>> -> 12549
      [] <<agent_id, reading.sec, reading.ms>> = <<1, 0, 30>> -> 21442
      [] <<agent_id, reading.sec, reading.ms>> = <<1, 0, 70>> -> 7270
      [] <<agent_id, reading.sec, reading.ms>> = <<2, 0, 0>> -> 4505
      [] <<agent_id, reading.sec, reading.ms>> = <<2, 0, 30>> -> 46814
      [] <<agent_id, reading.sec, reading.ms>> = <<2, 0, 70>> -> 60410
      [] <<agent_id, reading.sec, reading.ms>> = <<3, 0, 0>> -> 22767
      [] <<agent_id, reading.sec, reading.ms>> = <<3, 0, 30>> -> 5083
      [] <<agent_id, reading.sec, reading.ms>> = <<3, 0, 70>> -> 34849
      [] <<agent_id, reading.sec, reading.ms>> = <<0, 11, 0>> -> 28631
      [] <<agent_id, reading.sec, reading.ms>> = <<1, 22, 0>> -> 20861
      [] <<agent_id, reading.sec, reading.ms>> = <<2, 33, 0>> -> 33472
      [] <<agent_id, reading.sec, reading.ms>> = <<3, 44, 0>> -> 9397

\* register_agent: unique_id = f"agent_{timestamp}_{random_suffix}", the
\* timestamp having the resolution of one second.
MakeUid(agent_id, reading) ==
    [timestamp |-> reading.sec, suffix |-> Hash4(agent_id, reading)]
NoUid == [timestamp |-> -1, suffix |-> -1]

\* register_agent: agents[unique_id] = {agent_id, started, status: active}
RegisterAgent(reg, agent_id, reading) ==
    LET uid == MakeUid(agent_id, reading)
    IN  {e \in reg : e.uid # uid}
          \cup {[uid |-> uid, agent_id |-> agent_id, started |-> reading.sec,
                 status |-> "active"]}

\* register_agent(agent_id) on the registry file in the given state: a file
\* that does not exist counts as {}, a file that is not JSON makes json.loads
\* raise before anything is written.
RegisterResult(state, reg, agent_id, reading) ==
    IF state = "corrupt"
    THEN [how |-> "raise", uid |-> NoUid, registry |-> reg, state |-> state]
    ELSE [how |-> "uid", uid |-> MakeUid(agent_id, reading),
          registry |-> RegisterAgent(IF state = "missing" THEN {} ELSE reg,
                                     agent_id, reading),
          state |-> "valid"]

\* register_agent(agent_id), called at the millisecond ms of the second now.
Register(agent_id, ms) ==
    /\ Cardinality(registry) < MaxRegistered
    /\ LET r == RegisterResult(regstate, registry, agent_id, Reading(now, ms))
       IN  /\ registry' = r.registry
           /\ regstate' = r.state
           /\ regret' = [how |-> r.how, uid |-> r.uid, found |-> regstate]
    /\ UNCHANGED <<now, claims, ret, worklog>>

\* Variant: the file is opened for writing, not for appending.
LogCompletedWorkOverwrites(uid) ==
    /\ Len(worklog.lines) < MaxLog
    /\ worklog' = [exists |-> TRUE, lines |-> <<uid>>]
    /\ UNCHANGED <<now, claims, ret, registry, regstate, regret>>

\* log_completed_work(agent_uid, description): one line is appended, the file
\* being created if it does not exist.
LogCompletedWork(uid) ==
    /\ Len(worklog.lines) < MaxLog
    /\ worklog' = [exists |-> TRUE, lines |-> Append(worklog.lines, uid)]
    /\ UNCHANGED <<now, claims, ret, registry, regstate, regret>>

\* The registry file is removed or overwritten with text that is not JSON by
\* another process using the coordination directory.
RegistryDamaged ==
    /\ \E st \in {"missing", "corrupt"} : regstate # st /\ regstate' = st
    /\ registry' = {}
    /\ UNCHANGED <<now, claims, ret, worklog, regret>>

registryFrame == <<swept, captured, is_ready, held, cpc, cargs, clist, cret, cmeta, cghost, RUNNING, pc, cfg,
                   idx, agents, step_index, agents_working, todo, sent, trace>>

\* The store's operations one after the other, the registry and the log
\* included; every participant claims a file of its own, the first one logs
\* its work.
RegistryNext ==
    \/ StoreCleanup /\ op' = Op("cleanup", 0) /\ UNCHANGED registryFrame
    \/ (\E u \in Uids \cap Files : ClaimWork(u, {u}) /\ op' = Op("claim", 0))
         /\ UNCHANGED <<registry, regstate, worklog, regret>>
         /\ UNCHANGED registryFrame
    \/ (\E u \in Uids : ReleaseWork(u) /\ op' = Op("release", u))
         /\ UNCHANGED <<registry, regstate, worklog, regret>>
         /\ UNCHANGED registryFrame
    \/ (\E a \in 0..(MaxAgents - 1), ms \in Millis :
           Register(a, ms) /\ op' = Op("register", a))
         /\ UNCHANGED registryFrame
    \/ (LogCompletedWork(1) /\ op' = Op("log", 0))
         /\ UNCHANGED registryFrame
    \/ RegistryDamaged /\ op' = Op("damage", 0) /\ UNCHANGED registryFrame

\* The store's operations one after the other with every participant logging
\* its work and all of them claiming the same file.
LogNext ==
    \/ StoreCleanup /\ op' = Op("cleanup", 0) /\ UNCHANGED registryFrame
    \/ (\E u \in Uids : ClaimWork(u, {1}) /\ op' = Op("claim", u))
         /\ UNCHANGED <<registry, regstate, worklog, regret>>
         /\ UNCHANGED registryFrame
    \/ (\E u \in Uids : ReleaseWork(u) /\ op' = Op("release", u))
         /\ UNCHANGED <<registry, regstate, worklog, regret>>
         /\ UNCHANGED registryFrame
    \/ (\E a \in 0..(MaxAgents - 1) : Register(a, 30) /\ op' = Op("register", a))
         /\ UNCHANGED registryFrame
    \/ (\E u \in Uids : LogCompletedWork(u) /\ op' = Op("log", u))
         /\ UNCHANGED registryFrame

\* Agent (dataclass) and the absence of an entry in AgentLauncher.agents
NoAgent == [status |-> "none", current_step |-> 0, uid |-> NoUid]
NewAgent == [status |-> "starting", current_step |-> 0, uid |-> NoUid]

\* One delivery of send_to_pane: the pane it goes to and the text, as its
\* kind (which fixed text it is built from), the step lines it holds and the
\* "[Agent ID: uid]" suffix send_prompt adds.
Delivery(to, kind, note, lines, suffix) ==
    [to |-> to, kind |-> kind, note |-> note, lines |-> lines, suffix |-> suffix]

\* Variant: the loop stops one step short of the end of the list.
StepLinesButLast(steps) ==
    [k \in 1..(Len(steps) - 1) |->
        [number |-> steps[k].number, content |-> steps[k].content,
         description |-> steps[k].description]]

\* f"\nStep {step.number}: {step.content}" and, if step.description,
\* the Description line
StepLines(steps) ==
    [k \in DOMAIN steps |->
        [number |-> steps[k].number, content |-> steps[k].content,
         description |-> steps[k].description]]

\* Variant: the steps are taken from the end of the list.
SliceFromEnd(steps, lo, hi) == [k \in 1..(hi - lo) |-> steps[Len(steps) - hi + k]]

\* prompt.steps[lo:hi] (0-based, hi excluded)
Slice(steps, lo, hi) == [k \in 1..(hi - lo) |-> steps[lo + k]]

\* Variant: the suffix names the uid of the first agent.
SentAfterPromptFirstUid(log, ags, i, kind, note, lines) ==
    IF ags[i].status = "none"
    THEN log
    ELSE Append(log, Delivery(i, kind, note, lines, ags[0].uid))

\* send_prompt(agent_id, prompt): nothing for an id that was never launched;
\* otherwise the salted prompt is delivered and the status becomes working.
SentAfterPrompt(log, ags, i, kind, note, lines) ==
    IF ags[i].status = "none"
    THEN log
    ELSE Append(log, Delivery(i, kind, note, lines, ags[i].uid))

AgentsAfterPrompt(ags, i) ==
    IF ags[i].status = "none" THEN ags ELSE [ags EXCEPT ![i].status = "working"]

Min(a, b) == IF a < b THEN a ELSE b

\* _send_initial_prompts or _orchestrate_steps is left for good: the loop
\* index, step_index and agents_working are locals and are gone.
Returned ==
    /\ idx' = 0
    /\ step_index' = 0
    /\ agents_working' = {}
    /\ todo' = {}

\* signal_handler: RUNNING = False
Interrupt ==
    /\ RUNNING
    /\ pc # "done"
    /\ RUNNING' = FALSE
    /\ UNCHANGED <<now, pc, cfg, idx, agents, registry, step_index,
                   agents_working, todo, sent, trace>>

\* run: if not self.tmux.create_session(self.args.agents): return
CreateSession ==
    /\ pc = "create_session"
    /\ \E ok \in BOOLEAN :
          IF ok
          THEN /\ pc' = "launch"
               /\ trace' = [trace EXCEPT !.session = TRUE, !.created = TRUE]
          ELSE /\ pc' = "done"
               /\ UNCHANGED trace
    /\ idx' = 0
    /\ UNCHANGED <<now, RUNNING, cfg, agents, registry, step_index,
                   agents_working, todo, sent>>

\* Variant: the loop is left after the first agent.
LaunchLoopOnlyFirst ==
    /\ pc = "launch"
    /\ IF idx < 1 /\ RUNNING
       THEN pc' = "launch_agent" /\ UNCHANGED idx
       ELSE pc' = "initial" /\ idx' = 0
    /\ UNCHANGED <<now, RUNNING, cfg, agents, registry, step_index,
                   agents_working, todo, sent, trace>>

\* run: the head of "for i in range(self.args.agents)" with its
\* "if not RUNNING: break"; after the loop run calls _send_initial_prompts.
LaunchLoop ==
    /\ pc = "launch"
    /\ IF idx < cfg.agents /\ RUNNING
       THEN pc' = "launch_agent" /\ UNCHANGED idx
       ELSE pc' = "initial" /\ idx' = 0
    /\ UNCHANGED <<now, RUNNING, cfg, agents, registry, step_index,
                   agents_working, todo, sent, trace>>

\* launch_agent, first half: the Agent is created, cd and claude are sent.
LaunchStart ==
    /\ pc = "launch_agent"
    /\ agents' = [agents EXCEPT ![idx] = NewAgent]
    /\ sent' = sent \o << Delivery(idx, "cd", "", <<>>, NoUid),
                          Delivery(idx, "claude", "", <<>>, NoUid) >>
    /\ now' = now + CdSettleSeconds
    /\ pc' = "launch_settle"
    /\ UNCHANGED <<RUNNING, cfg, idx, registry, step_index, agents_working,
                   todo, trace>>

\* Where run stands once launch_agent has returned: which of the two lines
\* the readiness check made it print.
Launched(seen_ready) == IF seen_ready THEN "launched" ELSE "launched_unchecked"

\* Variant: an agent that is not seen ready is given up, neither registered
\* nor set ready.
LaunchFinishSkipsUnready ==
    /\ pc = "launch_settle"
    /\ now' = now + InitSettleSeconds
    /\ \E output \in PaneTexts :
          /\ pc' = Launched(IsReady(output))
          /\ IF IsReady(output)
             THEN /\ registry' = RegisterAgent(registry, idx, Reading(now', 0))
                  /\ agents' = [agents EXCEPT ![idx] =
                                  [status |-> "ready", current_step |-> 0,
                                   uid |-> MakeUid(idx, Reading(now', 0))]]
             ELSE UNCHANGED <<registry, agents>>
    /\ UNCHANGED <<RUNNING, cfg, idx, step_index, agents_working, todo, sent, trace>>

\* Variant: an agent that is not seen ready is registered and marked error.
LaunchFinishMarksError ==
    /\ pc = "launch_settle"
    /\ now' = now + InitSettleSeconds
    /\ \E output \in PaneTexts :
          /\ pc' = Launched(IsReady(output))
          /\ registry' = RegisterAgent(registry, idx, Reading(now', 0))
          /\ agents' = [agents EXCEPT ![idx] =
                          [status |-> IF IsReady(output) THEN "ready" ELSE "error",
                           current_step |-> 0,
                           uid |-> MakeUid(idx, Reading(now', 0))]]
    /\ UNCHANGED <<RUNNING, cfg, idx, step_index, agents_working, todo, sent, trace>>

\* launch_agent, second half: after the settle wait the readiness check is
\* made once on what the pane shows and its result only selects the line that
\* is printed; whatever it says the agent is registered and set ready.
LaunchFinish ==
    /\ pc = "launch_settle"
    /\ now' = now + InitSettleSeconds
    /\ \E output \in PaneTexts : pc' = Launched(IsReady(output))
    /\ registry' = RegisterAgent(registry, idx, Reading(now', 0))
    /\ agents' = [agents EXCEPT ![idx] =
                    [status |-> "ready", current_step |-> 0,
                     uid |-> MakeUid(idx, Reading(now', 0))]]
    /\ UNCHANGED <<RUNNING, cfg, idx, step_index, agents_working, todo, sent, trace>>

\* run: launch_agent has returned; "if i < self.args.agents - 1:
\* time.sleep(self.args.stagger)" and the loop goes on to the next i (the
\* length of the stagger is an argument and is not counted by the clock).
LaunchStagger ==
    /\ pc \in {Launched(TRUE), Launched(FALSE)}
    /\ idx' = idx + 1
    /\ pc' = "launch"
    /\ UNCHANGED <<now, RUNNING, cfg, agents, registry, step_index,
                   agents_working, todo, sent, trace>>

\* _send_initial_prompts: which coordination text is appended
CoordNote ==
    IF cfg.agents > 1
    THEN IF cfg.collaborative THEN "collaborative" ELSE "sequential"
    ELSE "none"

\* _send_initial_prompts: "for i in range(self.args.agents): send_prompt(i,
\* full_prompt)"; after it the step list is broadcast in collaborative mode,
\* and run goes on to the steps.
SendInitial ==
    /\ pc = "initial"
    /\ IF idx < cfg.agents
       THEN /\ sent' = SentAfterPrompt(sent, agents, idx, "initial", CoordNote, <<>>)
            /\ agents' = AgentsAfterPrompt(agents, idx)
            /\ idx' = idx + 1
            /\ UNCHANGED pc
       ELSE /\ pc' = IF cfg.collaborative /\ cfg.nsteps > 0
                     THEN "all_steps" ELSE "dispatch"
            /\ idx' = 0
            /\ UNCHANGED <<sent, agents>>
    /\ UNCHANGED <<now, RUNNING, cfg, registry, step_index, agents_working,
                   todo, trace>>

\* _send_initial_prompts: "for i in range(self.args.agents):
\* self._send_all_steps_to_agent(i)"
SendAllSteps ==
    /\ pc = "all_steps"
    /\ IF idx < cfg.agents
       THEN /\ sent' = SentAfterPrompt(sent, agents, idx, "all_steps", "",
                                       StepLines(PromptSteps))
            /\ agents' = AgentsAfterPrompt(agents, idx)
            /\ idx' = idx + 1
            /\ UNCHANGED pc
       ELSE /\ pc' = "dispatch"
            /\ idx' = 0
            /\ UNCHANGED <<sent, agents>>
    /\ UNCHANGED <<now, RUNNING, cfg, registry, step_index, agents_working,
                   todo, trace>>

\* Variant: _orchestrate_steps without its "if self.collaborative" branch.
DispatchToScheduler ==
    /\ pc = "dispatch"
    /\ pc' = IF cfg.nsteps = 0 THEN "monitor" ELSE "seq_loop"
    /\ step_index' = 0
    /\ agents_working' = {}
    /\ UNCHANGED <<now, RUNNING, cfg, idx, agents, registry, todo, sent, trace>>

\* run: "if self.prompt.steps: self._orchestrate_steps() else: ..." and the
\* head of _orchestrate_steps: collaborative mode only monitors.
Dispatch ==
    /\ pc = "dispatch"
    /\ pc' = IF cfg.nsteps = 0 THEN "monitor"
             ELSE IF cfg.collaborative THEN "collab_wait"
             ELSE "seq_loop"
    /\ step_index' = 0
    /\ agents_working' = {}
    /\ UNCHANGED <<now, RUNNING, cfg, idx, agents, registry, todo, sent, trace>>

\* run: "while RUNNING: time.sleep(1)" when there are no steps
Monitor ==
    /\ pc = "monitor"
    /\ pc' = IF RUNNING THEN "monitor" ELSE "cleanup"
    /\ idx' = 0
    /\ UNCHANGED <<now, RUNNING, cfg, agents, registry, step_index,
                   agents_working, todo, sent, trace>>

\* _orchestrate_steps, collaborative: "while RUNNING: time.sleep(5)", return
CollabWait ==
    /\ pc = "collab_wait"
    /\ pc' = IF RUNNING THEN "collab_wait" ELSE "cleanup"
    /\ idx' = 0
    /\ UNCHANGED <<now, RUNNING, cfg, agents, registry, step_index,
                   agents_working, todo, sent, trace>>

\* Variant: the loop is also left when no agent is working.
SeqLoopGivesUp ==
    /\ pc = "seq_loop"
    /\ pc' = IF RUNNING /\ step_index < cfg.nsteps /\ agents_working # {}
             THEN "sweep" ELSE "wait_loop"
    /\ idx' = 0
    /\ UNCHANGED <<now, RUNNING, cfg, agents, registry, step_index,
                   agents_working, todo, sent, trace>>

\* _orchestrate_steps: "while RUNNING and step_index < len(self.prompt.steps)"
SeqLoop ==
    /\ pc = "seq_loop"
    /\ pc' = IF RUNNING /\ step_index < cfg.nsteps THEN "sweep" ELSE "wait_loop"
    /\ idx' = 0
    /\ UNCHANGED <<now, RUNNING, cfg, agents, registry, step_index,
                   agents_working, todo, sent, trace>>

\* The bundle branch is taken: self.bundle_steps and self.bundle_steps > 1
Bundling == cfg.bundle_steps # 0 /\ cfg.bundle_steps > 1

\* Variant: the bundle ends one step early.
BundleEndShort == Min(step_index + cfg.bundle_steps - 1, cfg.nsteps)

\* bundle_end = min(step_index + self.bundle_steps, len(self.prompt.steps))
BundleEnd == Min(step_index + cfg.bundle_steps, cfg.nsteps)

\* Variant: the cursor is not advanced after a single step is sent.
SingleEndStuck == step_index

\* step_index += 1
SingleEnd == step_index + 1

\* _orchestrate_steps: one iteration of "for agent_id in range(agents)": an
\* agent not marked working that is seen ready gets the next step or bundle.
SweepAgentSeeing(texts) ==
    /\ pc = "sweep"
    /\ idx < cfg.agents
    /\ \E output \in texts :
          IF idx \notin agents_working /\ IsReady(output) /\ step_index < cfg.nsteps
          THEN IF Bundling
               THEN /\ sent' = SentAfterPrompt(sent, agents, idx, "bundle", "",
                                  StepLines(Slice(PromptSteps, step_index, BundleEnd)))
                    /\ agents' = AgentsAfterPrompt(agents, idx)
                    /\ agents_working' = agents_working \cup {idx}
                    /\ step_index' = BundleEnd
               ELSE /\ sent' = SentAfterPrompt(sent, agents, idx, "step", "",
                                  StepLines(Slice(PromptSteps, step_index, step_index + 1)))
                    /\ agents' = AgentsAfterPrompt(agents, idx)
                    /\ agents_working' = agents_working \cup {idx}
                    /\ step_index' = SingleEnd
          ELSE UNCHANGED <<sent, agents, agents_working, step_index>>
    /\ idx' = idx + 1
    /\ UNCHANGED <<now, RUNNING, pc, cfg, registry, todo, trace>>

\* The sweep's iteration, the pane showing any of the texts.
SweepAgent == SweepAgentSeeing(PaneTexts)

\* The sweep is over: "for agent_id in list(agents_working)" starts.
SweepEnd ==
    /\ pc = "sweep"
    /\ idx = cfg.agents
    /\ todo' = agents_working
    /\ pc' = "poll"
    /\ UNCHANGED <<now, RUNNING, cfg, idx, agents, registry, step_index,
                   agents_working, sent, trace>>

\* One iteration of the completion check of either loop; when the list is
\* exhausted, time.sleep(5) and back to the loop's head.
PollAgentSeeing(texts) ==
    /\ pc \in {"poll", "wait_poll"}
    /\ IF todo # {}
       THEN LET a == CHOOSE x \in todo : \A y \in todo : x <= y
            IN  /\ \E output \in texts :
                      agents_working' =
                         IF ShowsCompletion(output) /\ a \in agents_working
                         THEN agents_working \ {a}
                         ELSE agents_working
                /\ todo' = todo \ {a}
                /\ UNCHANGED pc
       ELSE /\ pc' = IF pc = "poll" THEN "seq_loop" ELSE "wait_loop"
            /\ UNCHANGED <<agents_working, todo>>
    /\ UNCHANGED <<now, RUNNING, cfg, idx, agents, registry, step_index, sent, trace>>

\* The completion check, the pane showing any of the texts.
PollAgent == PollAgentSeeing(PaneTexts)

\* _orchestrate_steps: "while RUNNING and agents_working", then the report
\* "All steps completed!" if not agents_working, and the return to run.
WaitLoop ==
    /\ pc = "wait_loop"
    /\ IF RUNNING /\ agents_working # {}
       THEN /\ pc' = "wait_poll"
            /\ todo' = agents_working
            /\ UNCHANGED <<trace, idx, step_index, agents_working>>
       ELSE /\ pc' = "cleanup"
            /\ trace' = [trace EXCEPT !.completed = (agents_working = {})]
            /\ Returned
    /\ UNCHANGED <<now, RUNNING, cfg, agents, registry, sent>>

\* Variant: no "finally", the exception ends run.
StageFailsUncaught ==
    /\ pc \in {"launch_agent", "launch_settle", "initial", "all_steps", "sweep",
              "poll", "wait_poll"}
    /\ pc' = "done"
    /\ trace' = [trace EXCEPT !.failed = TRUE]
    /\ Returned
    /\ UNCHANGED <<now, RUNNING, cfg, agents, registry, sent>>

\* run: "except Exception", then "finally": an operation of the terminal
\* driver or the launcher raised inside the try block.
StageFails ==
    /\ pc \in {"launch_agent", "launch_settle", "initial", "all_steps", "sweep",
              "poll", "wait_poll"}
    /\ pc' = "cleanup"
    /\ trace' = [trace EXCEPT !.failed = TRUE]
    /\ Returned
    /\ UNCHANGED <<now, RUNNING, cfg, agents, registry, sent>>

\* The "/exit" deliveries of _cleanup, one per pane index.
ExitDeliveries == [k \in 1..cfg.agents |-> Delivery(k - 1, "exit", "", <<>>, NoUid)]

\* _cleanup: "/exit" is sent to every pane, then kill_session if
\* args.kill_on_exit and coord._cleanup if args.cleanup_coordination (the two
\* flags are read nowhere else, so their values are drawn where they are
\* read). The locals of _orchestrate_steps are gone.
Cleanup ==
    /\ pc = "cleanup"
    /\ sent' = sent \o ExitDeliveries
    /\ \E kill_on_exit \in BOOLEAN, cleanup_coordination \in BOOLEAN :
          /\ trace' = [trace EXCEPT !.cleanup = TRUE,
                                    !.session = IF kill_on_exit THEN FALSE ELSE @,
                                    !.killed = kill_on_exit,
                                    !.store_reset = cleanup_coordination]
          /\ IF cleanup_coordination
             THEN StoreCleanup
             ELSE UNCHANGED <<now, claims, ret, registry, regstate, worklog, regret>>
    /\ pc' = "done"
    /\ UNCHANGED <<now, RUNNING, cfg, idx, agents, step_index, agents_working, todo>>

Configs ==
    [agents : 1..MaxAgents, nsteps : 0..MaxSteps, collaborative : BOOLEAN,
     bundle_steps : 0..MaxBundle]

NoTrace ==
    [session |-> FALSE, created |-> FALSE, cleanup |-> FALSE, completed |-> FALSE, failed |-> FALSE,
     killed |-> FALSE, store_reset |-> FALSE]

RunIdle ==
    /\ RUNNING = TRUE
    /\ pc = "done"
    /\ cfg = [agents |-> 1, nsteps |-> 0, collaborative |-> FALSE, bundle_steps |-> 0]
    /\ idx = 0
    /\ agents = [i \in 0..(MaxAgents - 1) |-> NoAgent]
    /\ registry = {}
    /\ step_index = 0
    /\ agents_working = {}
    /\ todo = {}
    /\ sent = <<>>
    /\ trace = NoTrace

\* What /tmp/claude_coordination holds when the program starts: nothing (a
\* first run), or what a run without cleanup left behind (a lock file, a
\* registry entry, a line of the log), the registry file readable or not.
Leftovers ==
    LET used == [claims |-> [k \in Uids |->
                               IF k = 1 THEN LockData(1, {1}, 0) ELSE NoClaim],
                 registry |-> RegisterAgent({}, 0, Reading(0, 0)),
                 regstate |-> "valid",
                 worklog |-> [exists |-> TRUE, lines |-> <<1>>]]
    IN  { [claims |-> [k \in Uids |-> NoClaim], registry |-> {},
           regstate |-> "missing", worklog |-> NoLog],
          used,
          [used EXCEPT !.registry = {}, !.regstate = "corrupt"] }

\* MultiClaudeOrchestrator.__init__: CoordinationManager(project_path) makes
\* the directories and calls _cleanup; the launcher it then builds has no
\* agent yet.
Construct ==
    /\ pc = "construct"
    /\ StoreCleanup
    /\ pc' = "create_session"
    /\ UNCHANGED <<RUNNING, cfg, idx, agents, step_index, agents_working, todo,
                   sent, trace>>

\* The program has been started with its arguments read: nothing is
\* constructed yet, the coordination directory is as it was left.
Init ==
    /\ now = 0
    /\ ret = FALSE
    /\ held = [u \in Uids |-> NoGrant]
    /\ regret = NoRegistration
    /\ op = Op("none", 0)
    /\ captured = {}
    /\ is_ready = FALSE
    /\ swept = <<>>
    /\ \E l \in Leftovers :
          /\ claims = l.claims
          /\ registry = l.registry
          /\ regstate = l.regstate
          /\ worklog = l.worklog
    /\ RaceIdle
    /\ RUNNING = TRUE
    /\ pc = "construct"
    /\ cfg \in Configs
    /\ idx = 0
    /\ agents = [i \in 0..(MaxAgents - 1) |-> NoAgent]
    /\ step_index = 0
    /\ agents_working = {}
    /\ todo = {}
    /\ sent = <<>>
    /\ trace = NoTrace

pollFrame == <<swept, is_ready, claims, ret, held, cpc, cargs, clist, cret,
               cmeta, cghost, regstate, worklog, regret, op>>
sweepFrame == <<captured, claims, ret, held, cpc, cargs, clist, cret, cmeta,
                cghost, regstate, worklog, regret, op>>
runFrame == <<swept, is_ready, sweepFrame>>

\* What neither run nor the store's _cleanup touches.
resetFrame == <<swept, captured, is_ready, held, cpc, cargs, clist, cret, cmeta, cghost, op>>

Next ==
    \/ Construct /\ UNCHANGED resetFrame
    \/ CreateSession /\ UNCHANGED runFrame
    \/ LaunchLoop /\ UNCHANGED runFrame
    \/ LaunchStart /\ UNCHANGED runFrame
    \/ LaunchFinish /\ UNCHANGED runFrame
    \/ LaunchStagger /\ UNCHANGED runFrame
    \/ SendInitial /\ UNCHANGED runFrame
    \/ SendAllSteps /\ UNCHANGED runFrame
    \/ Dispatch /\ UNCHANGED runFrame
    \/ Monitor /\ UNCHANGED runFrame
    \/ CollabWait /\ UNCHANGED runFrame
    \/ SeqLoop /\ UNCHANGED runFrame
    \/ SweepAgent /\ UNCHANGED runFrame
    \/ SweepEnd /\ UNCHANGED runFrame
    \/ PollAgent /\ UNCHANGED runFrame
    \/ WaitLoop /\ UNCHANGED runFrame
    \/ StageFails /\ UNCHANGED runFrame
    \/ Cleanup /\ UNCHANGED resetFrame
    \/ Interrupt /\ UNCHANGED runFrame

Spec == Init /\ [][Next]_vars

---------------------------------------------------------------------------
(* The run without steps, _cleanup taken one statement at a time, and the   *)
(* agents at work using the store meanwhile.                               *)

\* _cleanup: "for i in range(self.args.agents): send_to_pane(i, '/exit')",
\* then time.sleep(2).
CleanupExit ==
    /\ pc = "cleanup"
    /\ sent' = sent \o ExitDeliveries
    /\ pc' = "cleanup_kill"
    /\ UNCHANGED <<now, RUNNING, cfg, idx, agents, registry, step_index,
                   agents_working, todo, trace>>

\* _cleanup: "if self.args.kill_on_exit: self.tmux.kill_session()"
CleanupKill ==
    /\ pc = "cleanup_kill"
    /\ \E kill_on_exit \in BOOLEAN :
          trace' = [trace EXCEPT !.session = IF kill_on_exit THEN FALSE ELSE @,
                                 !.killed = kill_on_exit]
    /\ pc' = "cleanup_reset"
    /\ UNCHANGED <<now, RUNNING, cfg, idx, agents, registry, step_index,
                   agents_working, todo, sent>>

\* Variant: the store is reset whatever the flag says.
CleanupResetAlways ==
    /\ pc = "cleanup_reset"
    /\ \E cleanup_coordination \in BOOLEAN :
          trace' = [trace EXCEPT !.cleanup = TRUE,
                                 !.store_reset = cleanup_coordination]
    /\ StoreCleanup
    /\ pc' = "done"
    /\ UNCHANGED <<RUNNING, cfg, idx, agents, step_index, agents_working, todo, sent>>

\* _cleanup: "if self.args.cleanup_coordination: self.coord._cleanup()", and
\* "Cleanup complete".
CleanupReset ==
    /\ pc = "cleanup_reset"
    /\ \E cleanup_coordination \in BOOLEAN :
          /\ trace' = [trace EXCEPT !.cleanup = TRUE,
                                    !.store_reset = cleanup_coordination]
          /\ IF cleanup_coordination
             THEN StoreCleanup
             ELSE UNCHANGED <<now, claims, ret, registry, regstate, worklog, regret>>
    /\ pc' = "done"
    /\ UNCHANGED <<RUNNING, cfg, idx, agents, step_index, agents_working, todo, sent>>

\* Some agent has been given its prompt and the run is not over.
AgentsAtWork ==
    /\ pc # "done"
    /\ \E i \in AgentIds : agents[i].status = "working"

\* The run started with a prompt that has no steps.
ShutdownInit ==
    Init /\ cfg.nsteps = 0 /\ ~cfg.collaborative /\ cfg.bundle_steps = 0

\* What the store's operations called by the agents leave alone.
agentFrame == <<registry, regstate, regret, op>>

ShutdownNext ==
    \/ Construct /\ UNCHANGED resetFrame
    \/ CreateSession /\ UNCHANGED runFrame
    \/ LaunchLoop /\ UNCHANGED runFrame
    \/ LaunchStart /\ UNCHANGED runFrame
    \/ LaunchFinish /\ UNCHANGED runFrame
    \/ LaunchStagger /\ UNCHANGED runFrame
    \/ SendInitial /\ UNCHANGED runFrame
    \/ Dispatch /\ UNCHANGED runFrame
    \/ Monitor /\ UNCHANGED runFrame
    \/ StageFails /\ UNCHANGED runFrame
    \/ Interrupt /\ UNCHANGED runFrame
    \/ (AgentsAtWork /\ \E u \in Uids \cap Files : ClaimWork(u, {u}))
         /\ UNCHANGED <<worklog, agentFrame, registryFrame>>
    \/ (AgentsAtWork /\ LogCompletedWork(1))
         /\ UNCHANGED <<op, registryFrame>>
    \/ CleanupExit /\ UNCHANGED runFrame
    \/ CleanupKill /\ UNCHANGED runFrame
    \/ CleanupReset /\ UNCHANGED resetFrame

ShutdownSpec == ShutdownInit /\ [][ShutdownNext]_vars

---------------------------------------------------------------------------
(* The sequential scheduler with the history of the current sweep kept in  *)
(* swept: which agent was handed which steps, in the order of the sweep.   *)
(* The run is followed until _orchestrate_steps has returned.              *)

\* The run started in sequential mode with a prompt that has steps.
SweepInit == Init /\ ~cfg.collaborative /\ cfg.nsteps > 0

\* The assignment a sweep iteration made, if it made one: the steps
\* prompt.steps[step_index:step_index'] went to agent_id.
SweptAfter ==
    IF step_index' # step_index
    THEN Append(swept, [to |-> idx, lo |-> step_index + 1, hi |-> step_index'])
    ELSE swept

\* The sweep's iteration with what check_agent_ready returned kept in
\* is_ready until the sweep is over; the check is not made for an agent
\* marked working.
SweepObserved ==
    \E output \in PaneTexts :
        /\ SweepAgentSeeing({output})
        /\ is_ready' = IF idx \in agents_working THEN is_ready ELSE IsReady(output)
        /\ swept' = SweptAfter

\* The completion check with the pane text it captured kept in captured
\* until the for loop is over.
PollObserved ==
    \/ todo # {} /\ \E output \in PaneTexts :
                        PollAgentSeeing({output}) /\ captured' = output
    \/ todo = {} /\ PollAgentSeeing({{}}) /\ captured' = {}

SweepHistNext ==
    \/ Construct /\ UNCHANGED resetFrame
    \/ CreateSession /\ UNCHANGED runFrame
    \/ LaunchLoop /\ UNCHANGED runFrame
    \/ LaunchStart /\ UNCHANGED runFrame
    \/ LaunchFinish /\ UNCHANGED runFrame
    \/ LaunchStagger /\ UNCHANGED runFrame
    \/ SendInitial /\ UNCHANGED runFrame
    \/ Dispatch /\ UNCHANGED runFrame
    \/ SeqLoop /\ UNCHANGED runFrame
    \/ SweepObserved /\ UNCHANGED sweepFrame
    \/ SweepEnd /\ swept' = <<>> /\ is_ready' = FALSE /\ UNCHANGED sweepFrame
    \/ PollObserved /\ UNCHANGED pollFrame
    \/ WaitLoop /\ UNCHANGED runFrame
    \/ StageFails /\ swept' = <<>> /\ UNCHANGED <<is_ready, sweepFrame>>
    \/ Interrupt /\ UNCHANGED runFrame

SweepHistSpec == SweepInit /\ [][SweepHistNext]_vars

---------------------------------------------------------------------------
(* The sequential scheduler without interrupt and without a failure of the *)
(* terminal driver, followed until _orchestrate_steps has returned, under  *)
(* the assumption that the agents do their part: the program keeps taking  *)
(* steps; if the sweep looks again and again at agents not marked working, *)
(* one of them is at some time reported ready; if the completion check     *)
(* captures panes again and again, one of them at some time shows "ready". *)
(* This asks less than that every single agent is reported ready and shows *)
(* completion, so what holds here holds under that assumption too.         *)

\* The pane texts in which check_agent_ready finds an indicator.
ReadyTexts == {t \in PaneTexts : IsReady(t)}

\* The pane texts in which the completion check finds "ready".
CompletionTexts == {t \in PaneTexts : ShowsCompletion(t)}

\* The sweep reaches an agent not marked working and it is reported ready.
ReportedReady ==
    /\ idx \notin agents_working
    /\ SweepAgentSeeing(ReadyTexts)
    /\ UNCHANGED runFrame

\* The completion check reaches an agent and its pane shows "ready".
CompletionShown ==
    /\ todo # {}
    /\ PollAgentSeeing(CompletionTexts)
    /\ UNCHANGED runFrame

FairNext ==
    \/ Construct /\ UNCHANGED resetFrame
    \/ CreateSession /\ UNCHANGED runFrame
    \/ LaunchLoop /\ UNCHANGED runFrame
    \/ LaunchStart /\ UNCHANGED runFrame
    \/ LaunchFinish /\ UNCHANGED runFrame
    \/ LaunchStagger /\ UNCHANGED runFrame
    \/ SendInitial /\ UNCHANGED runFrame
    \/ Dispatch /\ UNCHANGED runFrame
    \/ SeqLoop /\ UNCHANGED runFrame
    \/ SweepAgent /\ UNCHANGED runFrame
    \/ SweepEnd /\ UNCHANGED runFrame
    \/ PollAgent /\ UNCHANGED runFrame
    \/ WaitLoop /\ UNCHANGED runFrame

Fairness ==
    /\ WF_vars(FairNext)
    /\ SF_vars(ReportedReady)
    /\ SF_vars(CompletionShown)

FairSpec == SweepInit /\ [][FairNext]_vars /\ Fairness

\* The pane texts in which check_agent_ready finds no indicator.
UnreadyTexts == {output \in PaneTexts : ~IsReady(output)}

\* The run when no readiness check of the scheduler's sweep finds an
\* indicator.
NeverReadyNext ==
    \/ Construct /\ UNCHANGED resetFrame
    \/ CreateSession /\ UNCHANGED runFrame
    \/ LaunchLoop /\ UNCHANGED runFrame
    \/ LaunchStart /\ UNCHANGED runFrame
    \/ LaunchFinish /\ UNCHANGED runFrame
    \/ LaunchStagger /\ UNCHANGED runFrame
    \/ SendInitial /\ UNCHANGED runFrame
    \/ SendAllSteps /\ UNCHANGED runFrame
    \/ Dispatch /\ UNCHANGED runFrame
    \/ Monitor /\ UNCHANGED runFrame
    \/ CollabWait /\ UNCHANGED runFrame
    \/ SeqLoop /\ UNCHANGED runFrame
    \/ SweepAgentSeeing(UnreadyTexts) /\ UNCHANGED runFrame
    \/ SweepEnd /\ UNCHANGED runFrame
    \/ PollAgent /\ UNCHANGED runFrame
    \/ WaitLoop /\ UNCHANGED runFrame
    \/ StageFails /\ UNCHANGED runFrame
    \/ Cleanup /\ UNCHANGED resetFrame
    \/ Interrupt /\ UNCHANGED runFrame

NeverReadySpec == Init /\ [][NeverReadyNext]_vars

\* The store alone: CoordinationManager.__init__ has run, no orchestrator run
\* is in progress.
StoreOnlyInit == StoreInit /\ RaceIdle /\ RunIdle

StoreSpec == StoreOnlyInit /\ [][StoreNext]_vars

RegistrySpec == StoreOnlyInit /\ [][RegistryNext]_vars

LogSpec == StoreOnlyInit /\ [][LogNext]_vars

RaceSpec == StoreOnlyInit /\ [][RaceNext]_vars

StoreHistSpec == StoreOnlyInit /\ [][StoreHistNext]_vars

CallSpec == StoreOnlyInit /\ [][CallNext]_vars

RaceHistSpec == StoreOnlyInit /\ [][RaceHistNext]_vars

---------------------------------------------------------------------------
(* AgentLauncher used on its own: launch_agent, send_prompt and            *)
(* check_agent_ready called one after the other.                           *)

\* The pieces of text a pane capture is made of, and the captures: up to
\* MaxFragments pieces each.
Fragments ==
    {"Welcome to Claude Code", "/help for help", "? for shortcuts", "cwd:",
     "Press Esc twice", "welcome to claude code", "Ready"}
Captures == {c \in SUBSET Fragments : Cardinality(c) <= MaxFragments}

\* The ids launch_agent was called for.
LaunchedIds == {i \in 0..(MaxAgents - 1) : agents[i].status # "none"}

\* check_agent_ready(agent_id): self.tmux.capture_pane(agent_id, lines=50),
\* then the test for the indicators; nothing is written.
CheckAgentReady(i) ==
    /\ \E output \in Captures :
          /\ captured' = output
          /\ is_ready' = IsReady(output)
    /\ UNCHANGED <<now, agents, registry, sent>>

\* launch_agent(agent_id, project_path), the whole of it, for the ids in
\* ascending order as run calls it.
LaunchAgent(i) ==
    /\ i = Cardinality(LaunchedIds)
    /\ now' = now + CdSettleSeconds + InitSettleSeconds
    /\ sent' = sent \o << Delivery(i, "cd", "", <<>>, NoUid),
                          Delivery(i, "claude", "", <<>>, NoUid) >>
    /\ \E output \in Captures :
          /\ captured' = output
          /\ is_ready' = IsReady(output)
    /\ registry' = RegisterAgent(registry, i, Reading(now', 0))
    /\ agents' = [agents EXCEPT ![i] =
                    [status |-> "ready", current_step |-> 0,
                     uid |-> MakeUid(i, Reading(now', 0))]]

\* send_prompt(agent_id, prompt), called for an agent that is not working
\* yet or was never launched.
SendPrompt(i) ==
    /\ agents[i].status # "working"
    /\ sent' = SentAfterPrompt(sent, agents, i, "initial", "none", <<>>)
    /\ agents' = AgentsAfterPrompt(agents, i)
    /\ UNCHANGED <<now, registry, captured, is_ready>>

launcherFrame == <<swept, claims, ret, held, cpc, cargs, clist, cret, cmeta, cghost,
                   RUNNING, pc, cfg, idx, regstate, worklog, regret, step_index,
                   agents_working, todo, trace>>

LauncherNext ==
    \/ (\E i \in 0..(MaxAgents - 1) : LaunchAgent(i) /\ op' = Op("launch", 0))
         /\ UNCHANGED launcherFrame
    \/ (\E i \in 0..(MaxAgents - 1) : SendPrompt(i) /\ op' = Op("send", 0))
         /\ UNCHANGED launcherFrame
    \/ (\E i \in 0..(MaxAgents - 1) : CheckAgentReady(i) /\ op' = Op("check", i))
         /\ UNCHANGED launcherFrame

LauncherSpec == StoreOnlyInit /\ [][LauncherNext]_vars

---------------------------------------------------------------------------
(* Properties of the Coordination Store.                                   *)

\* The record of uid k is written and not older than StaleSeconds.
Live(k) == claims[k].state = "written" /\ now - claims[k].timestamp <= StaleSeconds

\* C1 (StoreSpec): after any sequence of resets, claims and releases made one
\* after the other, no file is held by two different live claims, a claim
\* being live while it is neither released nor older than StaleSeconds.
C1_MutualExclusion ==
    \A a, b \in Uids :
        (a # b /\ Live(a) /\ Live(b)) => claims[a].files \cap claims[b].files = {}

\* C1: two live claims of different participants exist side by side, each on
\* some file, and the last claim_work was refused.
C1_Witness ==
    /\ \E a, b \in Uids :
          /\ a # b /\ Live(a) /\ Live(b)
          /\ claims[a].files # {} /\ claims[b].files # {}
    /\ ret = FALSE

\* Some participant other than b was granted a file of F, has not released it
\* since, and the grant is not older than StaleSeconds.
HeldByOther(b, F) ==
    \E a \in Uids \ {b}, f \in F :
        held[a][f] >= 0 /\ now - held[a][f] <= StaleSeconds

\* Participant b's own record is live and holds a file of F.
HeldBySelf(b, F) == Live(b) /\ claims[b].files \cap F # {}

\* C2 (StoreHistSpec): once A's claim of a set of files has succeeded, a
\* claim by another participant B that has a file in common with it returns
\* False for as long as A has not released and A's claim is not older than
\* StaleSeconds; when no intersecting claim is left (released or aged out),
\* B's claim returns True.
C2_BlockedUntilReleasedOrStale ==
    [][\A b \in Uids, F \in FileSets :
          ClaimWork(b, F) =>
              /\ HeldByOther(b, F) => ret' = FALSE
              /\ (~HeldByOther(b, F) /\ ~HeldBySelf(b, F)) => ret' = TRUE]_vars

\* C3 (RaceHistSpec): a claim_work call entered when no live claim had a file
\* in common with its files, and overlapped in time only by claim_work calls
\* on files disjoint from its own that were entered under the same condition,
\* returns True and leaves its record in the store.
C3_DisjointConcurrentClaimsSucceed ==
    \A u \in Uids :
        (/\ cghost[u].op = "claim" /\ cpc[u] = "idle" /\ cret[u] # "none"
         /\ cghost[u].clean /\ cghost[u].env)
          => (cret[u] = "true" /\ ~cghost[u].lost)

\* Two different participants hold live records with a file in common.
DoubleClaim ==
    \E a, b \in Uids :
        a # b /\ Live(a) /\ Live(b) /\ claims[a].files \cap claims[b].files # {}

\* C4 (RaceSpec): two claims with a file in common are both recorded as live
\* only where two calls ran concurrently, each passing its scan before the
\* other wrote; calls made one after the other never produce it.
C4_DoubleClaimOnlyByRace == DoubleClaim => cmeta.concurrent

\* C4: two concurrent claim_work calls with a common file have both returned
\* True and both records are in the store.
C4_Witness ==
    \E a, b \in Uids :
        /\ a # b /\ Live(a) /\ Live(b)
        /\ claims[a].files \cap claims[b].files # {}
        /\ cret[a] = "true" /\ cret[b] = "true"
        /\ cpc[a] = "idle" /\ cpc[b] = "idle"

---------------------------------------------------------------------------
(* Properties of the orchestrator.                                         *)

IsStep(d) == d.kind = "step"
IsBundle(d) == d.kind = "bundle"
IsAllSteps(d) == d.kind = "all_steps"

\* The deliveries of each kind, in the order they were sent.
StepsSent == SelectSeq(sent, IsStep)
BundlesSent == SelectSeq(sent, IsBundle)
ListsSent == SelectSeq(sent, IsAllSteps)

\* The text of step k of the prompt (k counted from 1).
ExpectedLine(k) ==
    [number |-> k, content |-> PromptSteps[k].content,
     description |-> PromptSteps[k].description]

\* The run is inside the sequential part of _orchestrate_steps.
InScheduler == pc \in {"seq_loop", "sweep", "poll", "wait_loop", "wait_poll"}

\* C5 (Spec): in sequential mode with bundle size 1 the steps sent are the
\* steps 1, 2, ... of the prompt, one per delivery, each once and in ascending
\* order, each to a launched agent; a run that is not interrupted leaves the
\* assignment loop only when every step has been sent.
C5_EachStepOnceInOrder ==
    (~cfg.collaborative /\ ~Bundling) =>
        LET steps == StepsSent
        IN  /\ InScheduler => Len(steps) = step_index
            /\ Len(steps) <= cfg.nsteps
            /\ \A k \in 1..Len(steps) :
                  /\ steps[k].lines = <<ExpectedLine(k)>>
                  /\ steps[k].to \in AgentIds
                  /\ agents[steps[k].to].status # "none"
            /\ (RUNNING /\ pc \in {"wait_loop", "wait_poll"}) => step_index = cfg.nsteps
            /\ (RUNNING /\ pc = "done" /\ trace.completed) => Len(steps) = cfg.nsteps

\* C5: two agents, four steps, bundle size 1, no interrupt: the four steps
\* have been sent and each agent received some of them.
C5_Witness ==
    /\ cfg.agents = 2 /\ cfg.nsteps = 4 /\ ~cfg.collaborative /\ ~Bundling
    /\ RUNNING
    /\ LET steps == StepsSent
       IN  /\ Len(steps) = 4
           /\ \A i \in AgentIds : \E k \in 1..4 : steps[k].to = i

\* The k-th chunk of cfg.bundle_steps steps of the prompt.
Chunk(k) ==
    [j \in 1..(Min(k * cfg.bundle_steps, cfg.nsteps) - (k - 1) * cfg.bundle_steps) |->
        ExpectedLine((k - 1) * cfg.bundle_steps + j)]

\* C6 (Spec): with M steps and bundle size B > 1 the k-th bundle sent holds
\* the steps (k-1)B+1 .. min(kB, M), whatever the number of agents: the
\* bundles are contiguous, disjoint, in order, the last one holding the
\* remainder, and no step is sent outside a bundle.
C6_BundlesAreContiguousChunks ==
    (~cfg.collaborative /\ Bundling) =>
        LET bundles == BundlesSent
        IN  /\ StepsSent = <<>>
            /\ \A k \in 1..Len(bundles) :
                  /\ (k - 1) * cfg.bundle_steps < cfg.nsteps
                  /\ bundles[k].lines = Chunk(k)
            /\ InScheduler =>
                  step_index = Min(Len(bundles) * cfg.bundle_steps, cfg.nsteps)

\* C6: five steps and bundle size 2: three bundles were sent, {1,2}, {3,4}
\* and {5}.
C6_Witness ==
    /\ cfg.nsteps = 5 /\ cfg.bundle_steps = 2 /\ ~cfg.collaborative
    /\ LET bundles == BundlesSent
       IN  /\ Len(bundles) = 3
           /\ Len(bundles[1].lines) = 2
           /\ Len(bundles[3].lines) = 1 /\ bundles[3].lines[1].number = 5

\* A delivery without what names its receiver.
Unaddressed(d) == [d EXCEPT !.to = 0, !.suffix = NoUid]

\* C7 (Spec): every step-list payload is sent in collaborative mode, holds the
\* number and content of all M steps in list order and ends with the uid of
\* the agent it goes to; two payloads differ in nothing but the receiver and
\* that suffix; no agent gets two. When the broadcast is over every launched
\* agent has received one, and these are all N agents unless the run was
\* interrupted during the launches.
C7_CollaborativeBroadcast ==
    LET lists == ListsSent
    IN  /\ \A k \in 1..Len(lists) :
              /\ cfg.collaborative
              /\ lists[k].lines = [n \in 1..cfg.nsteps |-> ExpectedLine(n)]
              /\ lists[k].suffix = agents[lists[k].to].uid
              /\ lists[k].suffix # NoUid
        /\ \A j, k \in 1..Len(lists) :
              /\ Unaddressed(lists[j]) = Unaddressed(lists[k])
              /\ j # k => lists[j].to # lists[k].to
        /\ (cfg.collaborative /\ cfg.nsteps > 0 /\ pc \in {"dispatch", "collab_wait"}) =>
              /\ \A i \in AgentIds :
                    agents[i].status # "none" =>
                        \E k \in 1..Len(lists) : lists[k].to = i
              /\ RUNNING => Len(lists) = cfg.agents

\* C7: collaborative mode, two agents and at least two steps: both agents
\* have received the step list and the orchestrator is in its wait loop.
C7_Witness ==
    /\ cfg.collaborative /\ cfg.agents = 2 /\ cfg.nsteps >= 2
    /\ pc = "collab_wait"
    /\ LET lists == ListsSent
       IN  Len(lists) = 2 /\ lists[1].suffix # lists[2].suffix

\* C8 (Spec): in collaborative mode no step and no bundle is ever sent; once
\* the step list has been broadcast, a step of the orchestrator sends nothing
\* and marks no agent, whatever the bundle size, and the wait loop is left
\* (towards cleanup) only when the running flag is false.
C8_NoCentralScheduling ==
    /\ [](cfg.collaborative => (StepsSent = <<>> /\ BundlesSent = <<>>))
    /\ [][(cfg.collaborative /\ cfg.nsteps > 0 /\ pc \in {"dispatch", "collab_wait"}) =>
             /\ sent' = sent
             /\ agents' = agents
             /\ step_index' = 0 /\ agents_working' = {}
             /\ \/ pc' \in {pc, "collab_wait"}
                \/ pc' = "cleanup" /\ ~RUNNING]_vars

\* C8: collaborative mode with a bundle size above 1: the step list was
\* broadcast to every agent, the flag was set to false and the scheduler
\* returned to cleanup having sent nothing else.
C8_Witness ==
    /\ cfg.collaborative /\ cfg.nsteps > 0 /\ Bundling
    /\ pc = "cleanup" /\ ~RUNNING /\ ~trace.failed
    /\ Len(ListsSent) = cfg.agents
    /\ sent[Len(sent)].kind = "all_steps"

\* C9, as stated (Spec): every run that ends has executed cleanup, whichever
\* stage failed, session creation included.
C9_CleanupAlwaysRuns == pc = "done" => trace.cleanup

\* C9, amended (Spec): a run that ends has executed cleanup exactly if its
\* session was created: after a failure of agent launch, initial broadcast or
\* step scheduling, and after an interrupt, cleanup is executed before the
\* run ends; when session creation fails the run ends without cleanup.
C9_CleanupRunsOnceSessionCreated ==
    /\ pc = "done" => (trace.cleanup <=> trace.created)
    /\ trace.cleanup => pc = "done"

\* C9: a stage failed after the session was created and the run has ended
\* with cleanup executed.
C9_Witness == pc = "done" /\ trace.failed /\ trace.cleanup /\ trace.created

\* A step that starts one more iteration of a loop of the orchestrator.
LoopIteration ==
    \/ pc = "launch" /\ pc' = "launch_agent"
    \/ pc = "initial" /\ pc' = "initial" /\ idx' = idx + 1
    \/ pc = "all_steps" /\ pc' = "all_steps" /\ idx' = idx + 1
    \/ pc = "seq_loop" /\ pc' = "sweep"
    \/ pc = "wait_loop" /\ pc' = "wait_poll"
    \/ pc = "collab_wait" /\ pc' = "collab_wait"
    \/ pc = "monitor" /\ pc' = "monitor"

\* C10 (Spec): once the running flag is false it stays false, and no loop of
\* the orchestrator (launch, initial broadcasts, sequential assignment,
\* completion wait, collaborative wait, no-steps wait) starts another
\* iteration.
C10_LoopsStopOnInterrupt ==
    [][~RUNNING => (~RUNNING' /\ ~LoopIteration)]_vars

---------------------------------------------------------------------------
(* Properties of release_work, register_agent and _cleanup.                *)

\* C11 (RegistrySpec): release_work(uid) leaves no record under uid, leaves
\* every other uid's record, the registry file and the completed-work log as
\* they were, and releasing again changes nothing more (also when there was
\* no record to begin with).
C11_ReleaseIdempotentOwnRecordOnly ==
    /\ [](\A u \in Uids : Released(Released(claims, u), u) = Released(claims, u))
    /\ [][\A u \in Uids :
             op' = Op("release", u) =>
                 /\ claims'[u] = NoClaim
                 /\ \A k \in Uids \ {u} : claims'[k] = claims[k]
                 /\ registry' = registry
                 /\ regstate' = regstate
                 /\ worklog' = worklog]_vars

\* C11: release_work has just run for one uid while another uid holds a
\* record, the registry has an entry and the log a line.
C11_Witness ==
    \E u, k \in Uids :
        /\ u # k
        /\ op = Op("release", u)
        /\ claims[u] = NoClaim
        /\ claims[k].state = "written"
        /\ registry # {}
        /\ worklog.exists /\ worklog.lines # <<>>

\* C12 (RegistrySpec): register_agent(agent_id) always returns a uid and
\* leaves a registry holding that uid; when it found the registry file missing
\* or not readable as JSON, the registry afterwards holds the new entry alone.
C12_RegisterNeverFails ==
    op.name = "register" =>
        /\ regret.how = "uid"
        /\ regstate = "valid"
        /\ \E e \in registry : e.uid = regret.uid /\ e.agent_id = op.who
        /\ regret.found # "valid" => Cardinality(registry) = 1

\* C13 (RegistrySpec): two calls of register_agent for different agent ids,
\* one right after the other within one second of the clock, return different
\* uids, and the second adds an entry to the registry.
C13_DistinctUidsWithinOneSecond ==
    [][\A a, b \in 0..(MaxAgents - 1) :
          ( /\ a # b
            /\ op = Op("register", a) /\ regret.how = "uid"
            /\ op' = Op("register", b) /\ regret'.how = "uid"
            /\ regret'.uid.timestamp = regret.uid.timestamp )
          => /\ regret'.uid # regret.uid
             /\ Cardinality(registry') = Cardinality(registry) + 1
             /\ \E e \in registry' : e.uid = regret.uid /\ e.agent_id = a]_vars

\* No lock file, the registry file holding "{}", no line in the log.
StoreEmpty ==
    /\ \A k \in Uids : claims[k].state = "absent"
    /\ registry = {} /\ regstate = "valid"
    /\ worklog.lines = <<>>

\* C14 (Spec): whatever the coordination directory held, after _cleanup (run
\* by the constructor, and by the orchestrator's _cleanup when
\* cleanup_coordination is set) there is no claim record, the registry is the
\* empty mapping and the log has no line; the constructor runs it while no
\* agent has been launched or registered, so the session is created on an
\* empty store.
C14_ResetEmptiesStoreAtConstruction ==
    /\ [](pc = "construct" =>
            /\ \A i \in 0..(MaxAgents - 1) : agents[i] = NoAgent
            /\ sent = <<>>
            /\ ~trace.created)
    /\ [](pc = "create_session" => StoreEmpty)
    /\ [][( \/ pc = "construct" /\ pc' = "create_session"
            \/ pc = "cleanup" /\ pc' = "done" /\ trace'.store_reset )
          => StoreEmpty']_vars

\* C14: the run ended with the reset of the store, which held the entry of a
\* registered agent.
C14_Witness ==
    /\ pc = "done" /\ trace.store_reset
    /\ \E i \in 0..(MaxAgents - 1) : agents[i].uid # NoUid
    /\ StoreEmpty

---------------------------------------------------------------------------
(* Properties of the launcher.                                             *)

\* The agent launch_agent was called for is registered and ready.
LaunchedAndRegistered ==
    /\ agents[idx].status = "ready"
    /\ agents[idx].uid = MakeUid(idx, Reading(now, 0))
    /\ \E e \in registry : e.uid = agents[idx].uid /\ e.agent_id = idx

\* C15 (Spec): when launch_agent(i) returns, agent i is in the registry of the
\* store, has its uid and status ready, whether the readiness check after the
\* settle wait said ready or not; unless the terminal driver raised, the
\* launch is completed from the settle wait whatever the check says, and after
\* a failed check the run goes on to the next agent.
C15_LenientLaunch ==
    /\ [](pc \in {Launched(TRUE), Launched(FALSE)} => LaunchedAndRegistered)
    /\ [][(pc = "launch_settle" /\ pc' # pc /\ ~trace'.failed)
            => pc' \in {Launched(TRUE), Launched(FALSE)}]_vars
    /\ [][(pc = Launched(FALSE) /\ pc' # pc)
            => (pc' = "launch" /\ idx' = idx + 1 /\ agents' = agents)]_vars

\* C15: launch_agent has returned for the second agent after a readiness
\* check that failed; both agents are registered and ready.
C15_Witness ==
    /\ pc = Launched(FALSE)
    /\ idx = 1
    /\ LaunchedAndRegistered
    /\ agents[0].status = "ready"
    /\ Cardinality(registry) = 2

\* C16 (Spec): no agent ever has status error; after a readiness check that
\* failed at launch the agent is ready all the same, and an iteration of the
\* scheduler's sweep that dispatches nothing (the check failed, or the agent
\* is busy, or no step is left) changes no agent.
C16_NoAutomaticErrorState ==
    /\ [](\A i \in 0..(MaxAgents - 1) :
            agents[i].status \in {"none", "starting", "ready", "working"})
    /\ [](pc = Launched(FALSE) => agents[idx].status = "ready")
    /\ [][(pc = "sweep" /\ idx' = idx + 1 /\ sent' = sent) => agents' = agents]_vars

\* C16: the sweep has gone over every agent with a step to hand out and none
\* busy, and every readiness check failed: the agents are as the initial
\* prompt left them.
C16_Witness ==
    /\ pc = "sweep"
    /\ cfg.agents = MaxAgents
    /\ idx = cfg.agents
    /\ cfg.nsteps > 0 /\ step_index = 0 /\ agents_working = {}
    /\ \A i \in AgentIds : agents[i].status = "working"

\* The deliveries made by send_prompt.
PromptKinds == {"initial", "all_steps", "step", "bundle"}

\* C17 (Spec): a step that delivers a prompt delivers it to the pane of the
\* agent send_prompt is called for, with the suffix naming that agent's uid
\* (the one the registry holds for it, and no other agent's), and leaves the
\* agent working and the other agents as they were; send_prompt for an id
\* that was never launched delivers nothing and changes no agent.
C17_SendPromptDelivers ==
    /\ [][(Len(sent') = Len(sent) + 1 /\ sent'[Len(sent')].kind \in PromptKinds)
            => LET d == sent'[Len(sent')]
               IN  /\ d.to = idx
                   /\ SubSeq(sent', 1, Len(sent)) = sent
                   /\ agents[idx].status # "none"
                   /\ d.suffix = agents[idx].uid
                   /\ \E e \in registry : e.uid = d.suffix /\ e.agent_id = idx
                   /\ \A j \in AgentIds \ {idx} : agents[j].uid # d.suffix
                   /\ agents' = [agents EXCEPT ![idx].status = "working"]]_vars
    /\ [][(pc \in {"initial", "all_steps"} /\ idx < cfg.agents
             /\ agents[idx].status = "none" /\ idx' = idx + 1)
            => (sent' = sent /\ agents' = agents /\ registry' = registry)]_vars

\* C17: the launch loop was interrupted after the first agent; the initial
\* prompt went to agent 0 with its own uid and set it working, and the call
\* for agent 1, never launched, delivered nothing.
C17_Witness ==
    /\ pc = "initial"
    /\ cfg.agents = 2 /\ idx = 2
    /\ agents[1] = NoAgent
    /\ agents[0].status = "working"
    /\ Len(sent) = 3
    /\ sent[3] = Delivery(0, "initial", CoordNote, <<>>, agents[0].uid)

\* C18 (LauncherSpec): what check_agent_ready returns is true exactly when
\* the captured text holds one of "Welcome to Claude Code", "/help for help",
\* "? for shortcuts", "cwd:", "Press Esc twice"; so a capture with "? for
\* shortcuts" is ready and one with none of them, the empty one included, is
\* not; and the check changes no agent, delivery, registry entry or record.
C18_ReadinessDetector ==
    /\ [](op.name \in {"check", "launch"} =>
            /\ is_ready = ( \/ "Welcome to Claude Code" \in captured
                            \/ "/help for help" \in captured
                            \/ "? for shortcuts" \in captured
                            \/ "cwd:" \in captured
                            \/ "Press Esc twice" \in captured )
            /\ "? for shortcuts" \in captured => is_ready
            /\ captured = {} => ~is_ready)
    /\ [][op'.name = "check" =>
            /\ agents' = agents /\ sent' = sent /\ registry' = registry
            /\ claims' = claims /\ regstate' = regstate /\ worklog' = worklog
            /\ now' = now /\ RUNNING' = RUNNING]_vars

\* C18: with one agent working and one ready, a check captured text whose
\* only marker is "? for shortcuts" and answered ready.
C18_Witness ==
    /\ op = Op("check", 1)
    /\ captured = {"? for shortcuts", "Ready"}
    /\ is_ready
    /\ agents[0].status = "working"
    /\ agents[1].status = "ready"

---------------------------------------------------------------------------
(* Properties of the run.                                                  *)

\* The sequential scheduler is in its assignment loop.
SeqScheduling == ~cfg.collaborative /\ pc \in {"seq_loop", "sweep", "poll"}

\* C19 (NeverReadySpec): in sequential mode, while no readiness check of the
\* sweep finds an indicator, step_index stays 0, no agent is marked working
\* and no step or bundle is delivered; the loop is left only once RUNNING is
\* false (or by an exception of the terminal driver), never by a condition of
\* its own.
C19_NeverReadyNoProgress ==
    /\ [](SeqScheduling =>
            /\ step_index = 0
            /\ agents_working = {}
            /\ \A k \in DOMAIN sent : sent[k].kind \notin {"step", "bundle"})
    /\ [][(SeqScheduling /\ ~SeqScheduling') => (~RUNNING \/ trace'.failed)]_vars

\* C19: the loop is back at its head, still running, after a sweep over all
\* the agents in which every check failed.
C19_Witness ==
    /\ pc = "seq_loop" /\ ~cfg.collaborative
    /\ RUNNING
    /\ cfg.agents = MaxAgents /\ idx = cfg.agents
    /\ cfg.nsteps > 0 /\ step_index = 0
    /\ \A i \in AgentIds : agents[i].status = "working"

\* The stage of the run a delivery belongs to.
Stage(d) ==
    CASE d.kind \in {"cd", "claude"} -> 1
      [] d.kind = "initial" -> 2
      [] d.kind = "all_steps" -> 3
      [] d.kind \in {"step", "bundle"} -> 4
      [] d.kind = "exit" -> 5

\* The ids with an entry in AgentLauncher.agents whose launch is complete.
FullyLaunched == {i \in AgentIds : agents[i].status \in {"ready", "working"}}

\* run is past the launch loop.
PastLaunch ==
    pc \in {"initial", "all_steps", "dispatch", "monitor", "collab_wait",
            "seq_loop", "sweep", "poll", "wait_loop", "wait_poll"}

\* C20 (Spec): the store is reset before the session is created, which finds
\* it empty; agents are launched one at a time in ascending order of id; the
\* initial prompt is delivered only after the last launch delivery, when the
\* launch loop is over (with every agent launched unless the run was
\* interrupted or failed); the step list, steps and bundles are delivered
\* only after the last initial prompt, and the scheduler runs only once every
\* launched agent has got the initial prompt.
C20_StartupOrdering ==
    /\ [][(trace'.created /\ ~trace.created) => (pc # "construct" /\ StoreEmpty)]_vars
    /\ [](LET launched == FullyLaunched
          IN  /\ pc = "construct" => (~trace.created /\ sent = <<>>)
              /\ \A j \in AgentIds :
                    agents[j].status # "none" => \A i \in 0..(j - 1) : i \in launched
              /\ \A k \in 1..(Len(sent) - 1) :
                    /\ Stage(sent[k]) <= Stage(sent[k + 1])
                    /\ (Stage(sent[k]) = 1 /\ Stage(sent[k + 1]) = 1)
                          => sent[k].to <= sent[k + 1].to
              /\ PastLaunch =>
                    /\ RUNNING => launched = AgentIds
                    /\ \A i \in AgentIds : agents[i].status # "starting"
              /\ (InScheduler \/ pc \in {"dispatch", "monitor", "collab_wait"}) =>
                    \A i \in launched :
                        \E k \in DOMAIN sent :
                            sent[k].kind = "initial" /\ sent[k].to = i)

\* C20: the scheduler has delivered a step after two agents were launched
\* and both had got the initial prompt.
C20_Witness ==
    /\ pc = "sweep" /\ RUNNING
    /\ cfg.agents = 2
    /\ Len(sent) = 7
    /\ [k \in 1..7 |-> <<sent[k].kind, sent[k].to>>] =
          << <<"cd", 0>>, <<"claude", 0>>, <<"cd", 1>>, <<"claude", 1>>,
             <<"initial", 0>>, <<"initial", 1>>, <<"step", 0>> >>

---------------------------------------------------------------------------
(* Properties of _cleanup.                                                 *)

\* The store's files as they are.
StoreFiles == <<claims, registry, regstate, worklog>>

\* The last cfg.agents deliveries are "/exit" to the panes 0..N-1 in order.
ExitsSentLast ==
    /\ Len(sent) >= cfg.agents
    /\ \A i \in AgentIds :
          LET d == sent[Len(sent) - cfg.agents + i + 1]
          IN  d.kind = "exit" /\ d.to = i

\* C21 (ShutdownSpec): _cleanup first sends "/exit" to every pane 0..N-1,
\* touching neither the session nor the store; then the session is gone
\* exactly when kill_on_exit is set; then the store is empty when
\* cleanup_coordination is set, and with the flag off the claim records, the
\* registry and the completed-work log are as they were.
C21_ShutdownSequence ==
    /\ [](pc \in {"cleanup_kill", "cleanup_reset"} => ExitsSentLast)
    /\ []((pc = "done" /\ trace.cleanup) => ExitsSentLast)
    /\ [][(pc = "cleanup" /\ pc' # pc) =>
            /\ pc' = "cleanup_kill"
            /\ Len(sent') = Len(sent) + cfg.agents
            /\ SubSeq(sent', 1, Len(sent)) = sent
            /\ trace' = trace
            /\ StoreFiles' = StoreFiles]_vars
    /\ [][(pc = "cleanup_kill" /\ pc' # pc) =>
            /\ pc' = "cleanup_reset"
            /\ trace'.session = (trace.session /\ ~trace'.killed)
            /\ sent' = sent
            /\ StoreFiles' = StoreFiles]_vars
    /\ [][(pc = "cleanup_reset" /\ pc' # pc) =>
            /\ pc' = "done"
            /\ trace'.session = trace.session
            /\ sent' = sent
            /\ IF trace'.store_reset THEN StoreEmpty' ELSE StoreFiles' = StoreFiles]_vars

\* C21: _cleanup is over for two agents with the session destroyed and the
\* store not reset: the claim record, the registry entries and the log line
\* the agents left are still there.
C21_Witness ==
    /\ pc = "done" /\ trace.cleanup
    /\ cfg.agents = 2
    /\ trace.killed /\ ~trace.session /\ ~trace.store_reset
    /\ ExitsSentLast
    /\ \E u \in Uids : claims[u].state = "written"
    /\ Cardinality(registry) = 2
    /\ worklog.lines # <<>>

---------------------------------------------------------------------------
(* Properties of log_completed_work and claim_work.                        *)

\* C22 (LogSpec): log_completed_work(uid, ...) puts one line of that uid at
\* the end of the log and leaves the lines before it as they were, in their
\* order; register_agent, claim_work and release_work leave the log as it is;
\* what claim_work returns is settled by the claim records alone (it returns
\* False exactly when a record at most 7200 s old holds the file), whatever
\* the log holds.
C22_LogAppendOnly ==
    /\ [][op'.name = "log" =>
            /\ worklog'.exists
            /\ Len(worklog'.lines) = Len(worklog.lines) + 1
            /\ SubSeq(worklog'.lines, 1, Len(worklog.lines)) = worklog.lines
            /\ worklog'.lines[Len(worklog'.lines)] = op'.who]_vars
    /\ [][op'.name \in {"register", "claim", "release"} => worklog' = worklog]_vars
    /\ [][op'.name = "claim" =>
            ret' = ~(\E k \in Uids :
                        /\ claims[k].state = "written"
                        /\ 1 \in claims[k].files
                        /\ now - claims[k].timestamp <= 7200)]_vars

\* C22: a second line, of another uid, has just been appended to the log
\* while a claim record and a registry entry exist.
C22_Witness ==
    /\ op.name = "log"
    /\ Len(worklog.lines) = 2
    /\ worklog.lines[1] # worklog.lines[2]
    /\ \E k \in Uids : claims[k].state = "written"
    /\ registry # {}

---------------------------------------------------------------------------
(* Properties of the sequential scheduler's sweep.                         *)

\* C23 (SweepHistSpec): a sweep examines the agents in ascending order of id,
\* from 0, one per iteration; the agent examined is given an assignment
\* exactly when it is not marked working, check_agent_ready returned True and
\* a step is left, and the assignment starts at the lowest step not yet
\* assigned and holds consecutive steps (one, or the bundle); so of two agents
\* given an assignment in the same sweep the one with the lower id holds the
\* earlier steps, all of them before every step of the other.
C23_SweepOrder ==
    /\ [](pc = "sweep" =>
            LET n == Len(swept)
            IN  /\ \A k \in 1..n : swept[k].to < idx /\ swept[k].lo <= swept[k].hi
                /\ \A k \in 1..(n - 1) :
                       /\ swept[k].to < swept[k + 1].to
                       /\ swept[k].hi < swept[k + 1].lo
                /\ n > 0 => swept[n].hi = step_index)
    /\ [][/\ (pc # "sweep" /\ pc' = "sweep") => (idx' = 0 /\ swept' = <<>>)
          /\ (pc = "sweep" /\ pc' = "sweep" /\ idx' # idx) => idx' = idx + 1
          /\ (pc = "sweep" /\ idx' = idx + 1) =>
                ((step_index' # step_index) <=>
                    (idx \notin agents_working /\ is_ready' /\ step_index < cfg.nsteps))
          /\ (step_index' > step_index) =>
                /\ pc = "sweep" /\ idx' = idx + 1
                /\ step_index' = IF cfg.bundle_steps > 1
                                 THEN Min(step_index + cfg.bundle_steps, cfg.nsteps)
                                 ELSE step_index + 1
                /\ Len(sent') = Len(sent) + 1
                /\ sent'[Len(sent')].to = idx
                /\ sent'[Len(sent')].lines =
                      [k \in 1..(step_index' - step_index) |->
                          ExpectedLine(step_index + k)]]_vars

\* C23: in a sweep that is not the first, agent 0 was given the bundle of
\* steps 3 and 4 and agent 1, examined after it, the remaining step 5.
C23_Witness ==
    /\ pc = "sweep"
    /\ swept = <<[to |-> 0, lo |-> 3, hi |-> 4], [to |-> 1, lo |-> 5, hi |-> 5]>>
    /\ Len(sent[Len(sent)].lines) = 1
    /\ sent[Len(sent)].to = 1

\* The agent the completion check looks at next.
Polled == CHOOSE x \in todo : \A y \in todo : x <= y

\* The text holds the word "ready" in some mix of cases.
HoldsReadyWord(output) == output \cap {"ready", "Ready", "READY"} # {}

\* C24 (SweepHistSpec): in sequential mode a step or bundle is delivered only
\* to an agent that is not marked working, and the delivery marks it; the mark
\* is removed only by the completion check, for the agent whose pane it
\* captured, and exactly when the text captured holds "ready" in any case; so
\* no agent is given two assignments in one sweep, and an agent that was
\* given an assignment stays marked until its completion was observed.
C24_OneOutstandingAssignment ==
    /\ [](pc = "sweep" =>
            \A j, k \in 1..Len(swept) : swept[j].to = swept[k].to => j = k)
    /\ [][/\ (InScheduler /\ Len(sent') > Len(sent)) =>
                LET d == sent'[Len(sent')]
                IN  /\ d.kind \in {"step", "bundle"}
                    /\ d.to \notin agents_working
                    /\ agents_working' = agents_working \cup {d.to}
          /\ (pc \in {"poll", "wait_poll"} /\ pc' = pc /\ todo' # todo) =>
                /\ todo' = todo \ {Polled}
                /\ agents_working' =
                      IF HoldsReadyWord(captured')
                      THEN agents_working \ {Polled}
                      ELSE agents_working
          /\ (InScheduler /\ pc' \in {"seq_loop", "sweep", "poll", "wait_loop", "wait_poll"}
                  /\ ~(agents_working \subseteq agents_working')) =>
                (pc \in {"poll", "wait_poll"} /\ todo' # todo)]_vars

\* C24: agent 0, given step 1 and seen to show "Ready", has been given step 3
\* after agent 1 was given step 2 and is still marked working.
C24_Witness ==
    /\ pc = "sweep"
    /\ cfg.bundle_steps = 0
    /\ Len(sent) >= 3
    /\ sent[Len(sent)].to = 0 /\ sent[Len(sent)].kind = "step"
    /\ sent[Len(sent)].lines[1].number = 3
    /\ sent[Len(sent) - 1].to = 1 /\ sent[Len(sent) - 1].kind = "step"
    /\ sent[Len(sent) - 2].to = 0 /\ sent[Len(sent) - 2].kind = "step"
    /\ agents_working = {0, 1}

\* C25 (FairSpec): without interrupt, the agents being reported ready and
\* showing completion as assumed, the sequential scheduler, once entered,
\* comes to have assigned every step (step_index = len(prompt.steps)); the
\* second loop is entered only then and polls the agents still marked
\* working; _orchestrate_steps returns, and returns only with every step
\* assigned and no agent marked working.
C25_SchedulerTerminates ==
    /\ (pc = "seq_loop") ~> (pc = "cleanup" /\ trace.completed)
    /\ [](pc \in {"wait_loop", "wait_poll"} => step_index = cfg.nsteps)
    /\ [][(InScheduler /\ pc' = "cleanup") =>
            /\ pc = "wait_loop"
            /\ step_index = cfg.nsteps
            /\ agents_working = {}
            /\ trace'.completed]_vars

\* C25: the scheduler has returned after five single steps were sent to two
\* agents, the last of them to agent 1.
C25_Witness ==
    /\ pc = "cleanup" /\ trace.completed
    /\ cfg.agents = 2 /\ cfg.nsteps = 5 /\ cfg.bundle_steps = 0
    /\ Len(StepsSent) = 5
    /\ StepsSent[5].to = 1

\* Record k is written and has a file in common with F.
Hits(k, F) == claims[k].state = "written" /\ claims[k].files \cap F # {}

\* The age of record k.
Age(k) == now - claims[k].timestamp

\* The step is a claim_work call, by Caller for the files Request.
Claiming == op'.name = "claim"
Caller == op'.who
Request == cargs'[op'.who].files

\* C26 (CallSpec): a claim_work call returns False when a record with a file
\* in common with the request is 7200 s old or younger; when every such
\* record is older than 7200 s it returns True, the records of the other uids
\* among them are gone and the caller's is written anew; after any call that
\* returns True no record with a file of the request is older than 7200 s.
C26_StaleThresholdStrict ==
    [][Claiming =>
          /\ (\E k \in Uids : Hits(k, Request) /\ Age(k) <= 7200) => ret' = FALSE
          /\ (\A k \in Uids : Hits(k, Request) => Age(k) > 7200) =>
                /\ ret' = TRUE
                /\ \A k \in Uids \ {Caller} :
                      Hits(k, Request) => claims'[k].state = "absent"
          /\ ret' = TRUE =>
                /\ claims'[Caller].state = "written"
                /\ claims'[Caller].timestamp = now
                /\ \A k \in Uids :
                      (claims'[k].state = "written" /\ claims'[k].files \cap Request # {})
                          => now - claims'[k].timestamp <= 7200]_vars

\* C26: at 7201 uid 2 has claimed file 1; the call found the lock file of
\* uid 1 and the one of uid 2, returned True, the lock file of uid 1 is gone
\* and the one of uid 2 is new.
C26_Witness ==
    /\ now = 7201
    /\ op = Op("claim", 2) /\ cargs[2].files = {1}
    /\ clist[2] = {1, 2}
    /\ ret = TRUE
    /\ claims[1].state = "absent"
    /\ claims[2] = LockData(2, {1}, 7201)

\* C27 (RaceHistSpec): a claim_work call never ends with an exception; every
\* call that has ended returned True or False.
C27_ClaimNeverRaises ==
    \A u \in Uids :
        (cghost[u].op = "claim" /\ cpc[u] = "idle") => cret[u] \in {"none", "true", "false"}

\* What a claim_work call leaves alone whatever it returns: the records of
\* other uids that are not stale, the records of other uids without a file
\* of the request; a record of the caller without a file of the request is
\* not deleted.
KeepsOthers ==
    /\ \A k \in Uids \ {Caller} :
          (claims[k].state = "written" /\ (Age(k) <= 7200 \/ ~Hits(k, Request)))
              => claims'[k] = claims[k]
    /\ (claims[Caller].state = "written" /\ ~Hits(Caller, Request))
          => claims'[Caller].state = "written"

\* A claim_work call that returns False writes nothing: every record is as it
\* was or is gone, and those gone were stale and had a file of the request.
RefusalOnlyUnlinksStale ==
    ret' = FALSE =>
        \A k \in Uids :
            \/ claims'[k] = claims[k]
            \/ claims'[k] = NoClaim /\ Hits(k, Request) /\ Age(k) > 7200

\* C28 as stated (CallSpec): a claim_work call leaves the fresh and the
\* disjoint records of other uids alone; a call that returns False creates no
\* record, only unlinks stale records with a file of the request, and leaves
\* the caller's own record as it was.
C28_ClaimFrame ==
    [][Claiming =>
          /\ KeepsOthers
          /\ RefusalOnlyUnlinksStale
          /\ ret' = FALSE => claims'[Caller] = claims[Caller]]_vars

\* C28 (CallSpec): a claim_work call, whatever it returns, leaves the records
\* of other uids that are not stale and the records of other uids without a
\* file of the request as they were, and deletes no record without a file of
\* the request; a call that returns False creates and rewrites no record, its
\* only change being that stale records with a file of the request are gone,
\* the caller's own among them; a record of the caller that is not stale or
\* has no file of the request is as it was.
C28_ClaimFrameOwnStale ==
    [][Claiming =>
          /\ KeepsOthers
          /\ RefusalOnlyUnlinksStale
          /\ (ret' = FALSE /\ ~(Hits(Caller, Request) /\ Age(Caller) > 7200))
                => claims'[Caller] = claims[Caller]]_vars

\* C28: at 7201 uid 1 has asked for both files; the call found its own lock
\* file and the one uid 2 wrote for file 2 at that time, returned False, and
\* the caller's lock file is gone.
C28_Witness ==
    /\ now = 7201
    /\ op = Op("claim", 1) /\ cargs[1].files = {1, 2}
    /\ clist[1] = {1, 2}
    /\ ret = FALSE
    /\ claims[1].state = "absent"
    /\ claims[2] = LockData(2, {2}, 7201)

\* C29 (CallSpec): the record of a uid is the lock file named after it, so
\* there is one at most; a claim_work call that returns True leaves as the
\* caller's record the files requested and nothing else, whatever its record
\* held before, so that a file the uid claimed before and did not release is
\* held by no record; a claim of files that no record holds returns True.
C29_LaterClaimReplaces ==
    /\ [](\A k \in Uids : claims[k].state = "written" => claims[k].agent = k)
    /\ [][Claiming =>
            /\ ret' = TRUE =>
                  claims'[Caller] = [state |-> "written", agent |-> Caller,
                                     files |-> Request, timestamp |-> now]
            /\ (\A k \in Uids : ~Hits(k, Request)) => ret' = TRUE]_vars

\* C29: uid 1 has claimed file 2 at 7200; the call found the caller's own
\* lock file, which held file 1 only (at that time no record is stale, one
\* holding file 2 would have refused the call), and uid 1's record now holds
\* file 2 only.
C29_Witness ==
    /\ now = 7200
    /\ op = Op("claim", 1) /\ cargs[1].files = {2}
    /\ clist[1] = {1}
    /\ ret = TRUE
    /\ claims[1] = LockData(1, {2}, 7200)

\* C30 (CallSpec): a claim_work call of a uid whose own record is at most
\* 7200 s old and has a file in common with the request returns False and
\* leaves that record as it is.
C30_BlockedByOwnClaim ==
    [][(Claiming /\ Hits(Caller, Request) /\ Age(Caller) <= 7200) =>
          (ret' = FALSE /\ claims'[Caller] = claims[Caller])]_vars

\* C30: uid 1 holds a record of file 1 written at time 0; 7200 s later it has
\* asked for file 1 again, the call found no lock file but its own and
\* returned False.
C30_Witness ==
    /\ now = 7200
    /\ op = Op("claim", 1) /\ cargs[1].files = {1}
    /\ clist[1] = {1}
    /\ ret = FALSE
    /\ claims[1] = LockData(1, {1}, 0)

---------------------------------------------------------------------------
(* Properties of the run as a whole.                                       *)

\* C31 (Spec): the status of an agent is starting from the call of
\* launch_agent, ready from its end and working from the first prompt sent to
\* it; it changes in no other way: never back from working, never to idle or
\* error, and not when the scheduler takes the agent out of agents_working;
\* inside the sequential scheduler every launched agent has status working,
\* the ones not in agents_working too.
C31_StatusMovesForward ==
    /\ [](\A i \in DOMAIN agents :
            /\ agents[i].status \in {"none", "starting", "ready", "working"}
            /\ (InScheduler /\ agents[i].status # "none") => agents[i].status = "working")
    /\ [][\A i \in DOMAIN agents :
               /\ agents'[i].status # agents[i].status =>
                    \/ /\ agents[i].status = "none" /\ agents'[i].status = "starting"
                       /\ pc = "launch_agent" /\ i = idx
                    \/ /\ agents[i].status = "starting" /\ agents'[i].status = "ready"
                       /\ pc = "launch_settle" /\ i = idx
                    \/ /\ agents[i].status = "ready" /\ agents'[i].status = "working"
                       /\ Len(sent') > Len(sent)
                       /\ \E k \in (Len(sent) + 1)..Len(sent') :
                             sent'[k].to = i /\ sent'[k].suffix = agents[i].uid
               /\ (i \in agents_working /\ i \notin agents_working')
                     => agents'[i] = agents[i]]_vars

\* C31: the scheduler has seen agent 0 complete step 1 and has taken it out
\* of agents_working; its status is working, as is that of agent 1, which has
\* been given no step yet.
C31_Witness ==
    /\ pc \in {"poll", "seq_loop", "sweep"}
    /\ cfg.agents = 2
    /\ agents_working = {}
    /\ step_index = 1
    /\ Len(StepsSent) = 1 /\ StepsSent[1].to = 0
    /\ agents[0].status = "working"
    /\ agents[1].status = "working"

\* C32 (Spec): the sequential scheduler reports "All steps completed!" only
\* when every step of the prompt has been assigned and no agent is marked
\* working.
C32_CompletionReportedOnlyWhenTrue ==
    [][(trace'.completed /\ ~trace.completed) =>
          (step_index = cfg.nsteps /\ agents_working = {})]_vars

\* C33 (Spec): once RUNNING is False no agent is launched and nothing is
\* sent to a pane but the exit instruction of _cleanup.
C33_OnlyExitAfterInterrupt ==
    [][~RUNNING =>
          /\ \A i \in DOMAIN agents :
                agents[i].status = "none" => agents'[i].status = "none"
          /\ \A k \in (Len(sent) + 1)..Len(sent') : sent'[k].kind = "exit"]_vars

====
